---- MODULE Spec2Model ----
(***************************************************************************)
(* EmailPipeLine: IMAP poller -> normalizer -> semantic watcher ->         *)
(* classifier -> persister, connected by Redis streams with one consumer   *)
(* group per stream.  Each worker loop of the source is modelled by its    *)
(* broker/store calls, one action per external call of the handler.        *)
(***************************************************************************)
EXTENDS Integers, Sequences, FiniteSets, TLC

VARIABLES
    \* ---- Redis broker ----
    stream,         \* stream name -> sequence of entries [ev, delivered, acks]
    lastDelivered,  \* stream name -> last-delivered id of the stream's consumer group
    pending,        \* stream name -> pending entries list (PEL) of the group
    \* ---- persister worker(s) ----
    pPc,            \* worker -> position in the loop of persister main()
    pCur,           \* worker -> id of the entry being handled (0: none)
    pDbMsgId,       \* worker -> db_message_id returned by save_message (0: None)
    pClsOk,         \* worker -> result of save_classification
    pLog,           \* handled entries: [idx, msgOk, clsOk] recorded at the xack call
    pUpserts,       \* committed upserts in commit order: [kind, idx, id]
    \* ---- PostgreSQL tables written by the persister ----
    messages,       \* rows of table messages
    classifications,\* rows of table classifications
    nextMsgId,      \* serial of messages.id
    \* ---- classifier worker(s) ----
    cPc,            \* worker -> position in the loop of classifier main()
    cCur,           \* worker -> id of the entry being handled (0: none)
    cResp,          \* worker -> what the LLM call of this handling returned
    cClassification,\* worker -> the classification dict handed to publish_classified
    cLog,           \* decisions taken: [idx, resp, publish]
    cEmits,         \* appends done: [idx, out]
    \* ---- semantic watcher worker(s) and its collaborators ----
    wPc,            \* worker -> position in the loop of watcher main()
    wCur,           \* worker -> id of the entry being handled (0: none)
    wEmb,           \* worker -> email_emb of this handling
    wBest,          \* worker -> candidates[0] of this handling
    wLog,           \* decisions taken: [idx, decision, best]; "fault" when abandoned
    wEmits,         \* appends done: [idx, out]
    embCache,       \* rows of Supabase table email_embeddings
    registry,       \* watcher query prototypes searched by match_watcher_queries
    cacheOnly,      \* CACHE_ONLY (env WATCHER_CACHE_ONLY)
    embedCalls,     \* number of vo.embed calls made
    wCalls,         \* collaborator calls made: [idx, call, emb]
    \* ---- normalizer worker(s) ----
    nPc,            \* worker -> position in the loop of normalizer main()
    nCur,           \* worker -> id of the entry being handled (0: none)
    nData,          \* worker -> normalized_data of this handling
    nEmits,         \* appends done: [idx, out]
    \* ---- IMAP poller, its mailbox and its scan-status row ----
    mailbox,        \* messages of INBOX; the message at position u has UID u
    scanRow,        \* row of mailbox_scan_status: [exists, completed, uid]
    pgTxnAborted,   \* the pg connection is inside a failed transaction
    poPc,           \* "down", "poll", "publish", "commit"
    pgConn,         \* pg_conn is not None
    isInitialScan,  \* is_initial_scan of main()
    lastUid,        \* last_uid of main()
    pollBatch,      \* emails of the poll in progress, as their UIDs
    pollInitial,    \* is_initial_scan as it was when the batch was fetched
    pollDone,       \* UIDs of the batch whose publish_email future completed
    pollMax,        \* max_uid of main()
    polls,          \* number of polls made
    restarts,       \* number of restarts of the poller process
    poLog           \* history of the poller: UIDs returned by the SINCE searches,
                    \* UIDs fetched, UIDs published, the UIDs of the batch in
                    \* progress that passed the subject gate and whose append
                    \* failed, and whether the poll in progress met an IMAP error

brokerVars == <<stream, lastDelivered, pending>>
persVars   == <<pPc, pCur, pDbMsgId, pClsOk, pLog, pUpserts>>
dbVars     == <<messages, classifications, nextMsgId>>
clsVars    == <<cPc, cCur, cResp, cClassification, cLog, cEmits>>
normVars   == <<nPc, nCur, nData, nEmits>>
pollVars   == <<mailbox, scanRow, pgTxnAborted, poPc, pgConn, isInitialScan, lastUid,
                pollBatch, pollInitial, pollDone, pollMax, polls, restarts, poLog>>
watchVars  == <<wPc, wCur, wEmb, wBest, wLog, wEmits, embCache, registry, cacheOnly, embedCalls,
                wCalls>>

----------------------------------------------------------------------------
\* Bounds of the model.
MaxEvents == 2      \* entries pre-loaded on the input stream of a stage under test

\* Stream names of the source.
RAW  == "raw_emails.v1"
NORM == "emails.normalized.v1"
TOCLS == "emails.to_classify.v1"
CLSD == "emails.classified.v1"
StreamNames == {RAW, NORM, TOCLS, CLSD}

NoDict == [kind |-> "None"]

----------------------------------------------------------------------------
\* Redis stream commands.

\* XADD: append an entry; a new entry was never delivered nor acknowledged.
XAdded(s, ev) == [stream EXCEPT ![s] = Append(@, [ev |-> ev, delivered |-> 0, acks |-> 0])]

\* The only read the workers issue: XREADGROUP ... {stream: '>'} count=1,
\* which hands out the first entry never delivered to the group.
HasNew(s) == lastDelivered[s] < Len(stream[s])
NextId(s) == lastDelivered[s] + 1

XReadGroup(s) ==
    /\ HasNew(s)
    /\ lastDelivered' = [lastDelivered EXCEPT ![s] = NextId(s)]
    /\ pending' = [pending EXCEPT ![s] = @ \cup {NextId(s)}]
    /\ stream' = [stream EXCEPT ![s][NextId(s)].delivered = @ + 1]

\* XACK: remove from the pending list.
XAck(s, i) ==
    /\ pending' = [pending EXCEPT ![s] = @ \ {i}]
    /\ stream' = [stream EXCEPT ![s][i].acks = @ + 1]
    /\ UNCHANGED lastDelivered

Fields(s, i) == stream[s][i].ev

EmptyStreams == [s \in StreamNames |-> <<>>]
EmptyGroups  == [s \in StreamNames |-> 0]
EmptyPending == [s \in StreamNames |-> {}]

----------------------------------------------------------------------------
\* Persister (src/workers/persister/main.py)

PWorkers == {1, 2}

\* datetime.fromtimestamp(int(received_ts)), None when empty or not an integer
ReceivedAt(ts) == IF ts = "" \/ ts = "bad" THEN "NULL" ELSE ts

RowsByKey(k) == {m \in messages : m.idemp_key = k}

\* INSERT INTO messages ... ON CONFLICT (idemp_key) DO UPDATE SET subject,
\* body_hash, received_at ... RETURNING id
MessageRow(id, f) ==
    [id |-> id, idemp_key |-> f.idemp_key, mailbox_id |-> f.mailbox_id,
     external_id |-> f.external_id, subject |-> f.subject,
     body_hash |-> f.body_hash, received_at |-> ReceivedAt(f.received_ts)]

UpsertMessageKeepingFirst(f) ==
    IF RowsByKey(f.idemp_key) = {}
    THEN [rows |-> messages \cup {MessageRow(nextMsgId, f)},
          id |-> nextMsgId, next |-> nextMsgId + 1]
    ELSE [rows |-> messages, id |-> (CHOOSE m \in RowsByKey(f.idemp_key) : TRUE).id,
          next |-> nextMsgId]

UpsertMessageReturningFirstId(f) ==
    IF RowsByKey(f.idemp_key) = {}
    THEN [rows |-> messages \cup {MessageRow(nextMsgId, f)}, id |-> 1, next |-> nextMsgId + 1]
    ELSE LET old == CHOOSE m \in RowsByKey(f.idemp_key) : TRUE
             new == [old EXCEPT !.subject = f.subject, !.body_hash = f.body_hash,
                                !.received_at = ReceivedAt(f.received_ts)]
         IN  [rows |-> (messages \ {old}) \cup {new}, id |-> 1, next |-> nextMsgId]

UpsertMessageAlwaysInsert(f) ==
    [rows |-> messages \cup {MessageRow(nextMsgId, f)}, id |-> nextMsgId, next |-> nextMsgId + 1]

UpsertMessage(f) ==
    IF RowsByKey(f.idemp_key) = {}
    THEN [rows |-> messages \cup {MessageRow(nextMsgId, f)},
          id |-> nextMsgId, next |-> nextMsgId + 1]
    ELSE LET old == CHOOSE m \in RowsByKey(f.idemp_key) : TRUE
             new == [old EXCEPT !.subject = f.subject, !.body_hash = f.body_hash,
                                !.received_at = ReceivedAt(f.received_ts)]
         IN  [rows |-> (messages \ {old}) \cup {new}, id |-> old.id, next |-> nextMsgId]

\* fields.get(name, default) of the columns save_classification reads
Get(f, name, default) == IF name \in DOMAIN f THEN f[name] ELSE default

\* INSERT INTO classifications ... ON CONFLICT (message_id) DO UPDATE SET vendor,
\* amount_cents, currency, class, confidence
ClassificationRow(mid, f) ==
    [message_id |-> mid, vendor |-> Get(f, "vendor", ""),
     amount_cents |-> Get(f, "amount_cents", 0), currency |-> Get(f, "currency", ""),
     class |-> Get(f, "class", ""), confidence |-> Get(f, "confidence", 0)]

\* an upsert that writes no row
UpsertClassificationNone(mid, f) == classifications

UpsertClassification(mid, f) ==
    {c \in classifications : c.message_id # mid} \cup {ClassificationRow(mid, f)}

\* r.xreadgroup('persister-g', consumer, {'emails.classified.v1': '>'}, count=1)
PRead(w) ==
    /\ pPc[w] = "read"
    /\ XReadGroup(CLSD)
    /\ pCur' = [pCur EXCEPT ![w] = NextId(CLSD)]
    /\ pPc' = [pPc EXCEPT ![w] = "save_message"]
    /\ pDbMsgId' = [pDbMsgId EXCEPT ![w] = 0]
    /\ pClsOk' = [pClsOk EXCEPT ![w] = FALSE]
    /\ UNCHANGED <<pLog, pUpserts, dbVars>>

\* db_message_id = save_message(conn, fields): the upsert commits, or any
\* exception is caught, rolled back and None returned.
PSaveMessage(w) ==
    /\ pPc[w] = "save_message"
    /\ \E ok \in BOOLEAN :
         IF ok
         THEN LET u == UpsertMessage(Fields(CLSD, pCur[w]))
              IN  /\ messages' = u.rows
                  /\ nextMsgId' = u.next
                  /\ pDbMsgId' = [pDbMsgId EXCEPT ![w] = u.id]
                  /\ pUpserts' = Append(pUpserts, [kind |-> "message", idx |-> pCur[w],
                                                    id |-> u.id])
                  /\ pPc' = [pPc EXCEPT ![w] = "save_classification"]
         ELSE /\ UNCHANGED <<messages, nextMsgId, pDbMsgId, pUpserts>>
              /\ pPc' = [pPc EXCEPT ![w] = "ack"]
    /\ UNCHANGED <<brokerVars, pCur, pClsOk, pLog, classifications>>

\* if db_message_id: save_classification(conn, db_message_id, fields); its
\* boolean result is not looked at by main().
PSaveClassification(w) ==
    /\ pPc[w] = "save_classification"
    /\ \E ok \in BOOLEAN :
         /\ classifications' = IF ok THEN UpsertClassification(pDbMsgId[w], Fields(CLSD, pCur[w]))
                                     ELSE classifications
         /\ pClsOk' = [pClsOk EXCEPT ![w] = ok]
         /\ pUpserts' = IF ok THEN Append(pUpserts, [kind |-> "classification",
                                                      idx |-> pCur[w], id |-> pDbMsgId[w]])
                              ELSE pUpserts
    /\ pPc' = [pPc EXCEPT ![w] = "ack"]
    /\ UNCHANGED <<brokerVars, pCur, pDbMsgId, pLog, messages, nextMsgId>>

\* r.xack('emails.classified.v1', 'persister-g', message_id), reached on every
\* path through the handler; a broker error raises to the loop's except.
PAck(w) ==
    /\ pPc[w] = "ack"
    /\ XAck(CLSD, pCur[w])
    /\ pLog' = pLog \cup {[idx |-> pCur[w], msgOk |-> pDbMsgId[w] # 0, clsOk |-> pClsOk[w]]}
    /\ pPc' = [pPc EXCEPT ![w] = "read"]
    /\ pCur' = [pCur EXCEPT ![w] = 0]
    /\ UNCHANGED <<pDbMsgId, pClsOk, pUpserts, dbVars>>

\* except Exception: log, sleep(5), next iteration: the entry in hand is
\* dropped from the worker's memory and stays in the pending list.  A crash
\* and restart of the worker process has the same effect.
PFault(w) ==
    /\ pPc[w] # "read"
    /\ pPc' = [pPc EXCEPT ![w] = "read"]
    /\ pCur' = [pCur EXCEPT ![w] = 0]
    /\ UNCHANGED <<brokerVars, pDbMsgId, pClsOk, pLog, pUpserts, dbVars>>

PersInit ==
    /\ pPc = [w \in PWorkers |-> "read"]
    /\ pCur = [w \in PWorkers |-> 0]
    /\ pDbMsgId = [w \in PWorkers |-> 0]
    /\ pClsOk = [w \in PWorkers |-> FALSE]
    /\ pLog = {}
    /\ pUpserts = <<>>
    /\ messages = {}
    /\ classifications = {}
    /\ nextMsgId = 1

----------------------------------------------------------------------------
\* Strings are modelled by an identity and a length: [id, len].
Str(id, len) == [id |-> id, len |-> len]
EmptyStr == Str(0, 0)
NonEmpty(x) == x.len > 0

----------------------------------------------------------------------------
\* Classifier (src/workers/classifier/main.py)

CWorkers == {1}

\* Confidences are hundredths: 70 is the 0.7 of the source.
PublishConfidence == 70

\* What client.messages.create and the JSON extraction can produce.
\*   error: the call raised, or CLAUDE_API_KEY is not set
\*   empty: content_text.strip() is empty
\*   malformed: no JSON object found, or json.loads raised
\*   json: a JSON object; class "" stands for a missing key, extracted "notdict"
\*         for an extracted_data that is no JSON object
Json(c, q, x) == [kind |-> "json", class |-> c, confidence |-> q, extracted_data |-> x]
LLMResponses ==
    {[kind |-> k] : k \in {"error", "empty", "malformed"}}
    \cup {Json("", 69, "{}"), Json("Other", 69, "{}"), Json("", 70, "{}"),
          Json("", 69, "{vendor}"), Json("Other", 150, "{vendor}"),
          Json("Billing", 69, "notdict")}

\* classify_email_with_claude: {} on every failure, else the normalized dict
EmptyDict == [kind |-> "{}"]
ClassifyEmailWithClaude(resp) ==
    IF resp.kind # "json" THEN EmptyDict
    ELSE [kind |-> "dict", class |-> resp.class, confidence |-> resp.confidence,
          extracted_data |-> IF resp.extracted_data = "notdict" THEN "{}"
                             ELSE resp.extracted_data]

\* classification.get(key, default)
ClsGet(c, key, default) == IF key \in DOMAIN c THEN c[key] ELSE default

HasWatcher(f) == f.filter_watcher_name # ""
Confident(c) == ClsGet(c, "confidence", 0) >= PublishConfidence
HasExtracted(c) == ClsGet(c, "extracted_data", "{}") # "{}"

\* if has_watcher or confident or classification.get('extracted_data')
ShouldPublishConfidentOnly(f, c) == Confident(c)
ShouldPublish(f, c) == HasWatcher(f) \/ Confident(c) \/ HasExtracted(c)

\* if has_watcher and not classification.get('class'): class = watcher_name
WithWatcherClass(f, c) ==
    IF HasWatcher(f) /\ ClsGet(c, "class", "") = ""
    THEN [kind |-> "dict", class |-> f.filter_watcher_name,
          confidence |-> ClsGet(c, "confidence", 0),
          extracted_data |-> ClsGet(c, "extracted_data", "{}")]
    ELSE c

\* message_data of publish_classified
ClassifiedEvent(c, f) ==
    [trace_id |-> f.trace_id, mailbox_id |-> f.mailbox_id, idemp_key |-> f.idemp_key,
     body_hash |-> f.body_hash, subject |-> f.subject, external_id |-> f.external_id,
     received_ts |-> f.received_ts, class |-> ClsGet(c, "class", ""),
     confidence |-> ClsGet(c, "confidence", 0), watcher_id |-> f.filter_watcher_id,
     extracted_data |-> ClsGet(c, "extracted_data", "{}")]

\* r.xreadgroup('classifier-g', consumer, {'emails.to_classify.v1': '>'}, count=1)
CRead(w) ==
    /\ cPc[w] = "read"
    /\ XReadGroup(TOCLS)
    /\ cCur' = [cCur EXCEPT ![w] = NextId(TOCLS)]
    /\ cPc' = [cPc EXCEPT ![w] = "classify"]
    /\ cResp' = [cResp EXCEPT ![w] = NoDict]
    /\ cClassification' = [cClassification EXCEPT ![w] = NoDict]
    /\ UNCHANGED <<cLog, cEmits>>

CDecided(w, resp, publish) ==
    cLog' = cLog \cup {[idx |-> cCur[w], resp |-> resp, publish |-> publish]}

\* if text_content: classify, then decide; else warn and go to the ack
CClassifyFrom(w, responses) ==
    /\ cPc[w] = "classify"
    /\ LET f == Fields(TOCLS, cCur[w]) IN
       IF NonEmpty(f.text_content)
       THEN \E resp \in responses :
              LET c == ClassifyEmailWithClaude(resp) IN
              /\ cResp' = [cResp EXCEPT ![w] = resp]
              /\ CDecided(w, resp, ShouldPublish(f, c))
              /\ IF ShouldPublish(f, c)
                 THEN /\ cClassification' = [cClassification EXCEPT ![w] = WithWatcherClass(f, c)]
                      /\ cPc' = [cPc EXCEPT ![w] = "publish"]
                 ELSE /\ cClassification' = cClassification
                      /\ cPc' = [cPc EXCEPT ![w] = "ack"]
       ELSE /\ cPc' = [cPc EXCEPT ![w] = "ack"]
            /\ CDecided(w, NoDict, FALSE)
            /\ UNCHANGED <<cResp, cClassification>>
    /\ UNCHANGED <<brokerVars, cCur, cEmits>>

CClassify(w) == CClassifyFrom(w, LLMResponses)

\* publish_classified: r.xadd('emails.classified.v1', message_data); an
\* exception of the append is logged and swallowed.
CPublish(w) ==
    /\ cPc[w] = "publish"
    /\ \E ok \in BOOLEAN :
         IF ok
         THEN /\ stream' = XAdded(CLSD, ClassifiedEvent(cClassification[w], Fields(TOCLS, cCur[w])))
              /\ cEmits' = cEmits \cup {[idx |-> cCur[w], out |-> Len(stream[CLSD]) + 1]}
         ELSE UNCHANGED <<stream, cEmits>>
    /\ cPc' = [cPc EXCEPT ![w] = "ack"]
    /\ UNCHANGED <<lastDelivered, pending, cCur, cResp, cClassification, cLog>>

\* r.xack('emails.to_classify.v1', 'classifier-g', message_id)
CAck(w) ==
    /\ cPc[w] = "ack"
    /\ XAck(TOCLS, cCur[w])
    /\ cPc' = [cPc EXCEPT ![w] = "read"]
    /\ cCur' = [cCur EXCEPT ![w] = 0]
    /\ UNCHANGED <<cResp, cClassification, cLog, cEmits>>

\* except Exception around the loop body (a broker error of xreadgroup or
\* xack), or a crash of the worker: the entry in hand stays pending.
CFault(w) ==
    /\ cPc[w] # "read"
    /\ cPc' = [cPc EXCEPT ![w] = "read"]
    /\ cCur' = [cCur EXCEPT ![w] = 0]
    /\ UNCHANGED <<brokerVars, cResp, cClassification, cLog, cEmits>>

ClsInit ==
    /\ cPc = [w \in CWorkers |-> "read"]
    /\ cCur = [w \in CWorkers |-> 0]
    /\ cResp = [w \in CWorkers |-> NoDict]
    /\ cClassification = [w \in CWorkers |-> NoDict]
    /\ cLog = {}
    /\ cEmits = {}

----------------------------------------------------------------------------
\* Semantic watcher (src/workers/watcher/watcher_semantic.py)

WWorkers == {1}

TOP_K == 5
EMAIL_TEXT_LIMIT == 1000
MIN_EMAIL_TEXT == 40

\* Cosine distances, similarities and thresholds are tenths: Unit is 1.0.
Unit == 10

Min(a, b) == IF a < b THEN a ELSE b

\* SHA-256 hex digest of a text; NoHash is the empty string of a missing field.
Sha256(t) == [empty |-> FALSE, of |-> t]
NoHash == [empty |-> TRUE, of |-> EmptyStr]

\* build_email_text: f"{subject}\n{text_content}".strip()[:EMAIL_TEXT_LIMIT]
\* (lengths are those of the stripped strings; the joining newline is
\* stripped away when either side is empty)
BuildEmailText(subject, text_content) ==
    LET n == IF subject.len = 0 THEN text_content.len
             ELSE IF text_content.len = 0 THEN subject.len
             ELSE subject.len + 1 + text_content.len
    IN  Str(<<subject.id, text_content.id>>, Min(n, EMAIL_TEXT_LIMIT))

\* vo.embed(texts=[email_text]).embeddings[0]: a vector determined by the text
Embed(email_text) == [vec |-> email_text.id]
NoEmb == [vec |-> <<>>]

\* similarity_from_cosine_distance
SimilarityFromCosineDistance(d) == Unit - d

\* stored procedure match_watcher_queries(p_mailbox_id, p_email_embedding,
\* p_limit): the prototypes of the mailbox's active watchers by ascending
\* cosine distance, at most p_limit rows.
CandidateRow(q, emb) ==
    [watcher_id |-> q.watcher_id, watcher_name |-> q.watcher_name,
     watcher_threshold |-> q.watcher_threshold, query_id |-> q.query_id,
     query_text |-> q.query_text, cosine_distance |-> q.dist[emb.vec]]

Ascending(seq) == \A i \in 1..(Len(seq) - 1) : seq[i].cosine_distance <= seq[i + 1].cosine_distance

MatchWatcherQueries(mailbox_id, emb, limit) ==
    LET rows == {CandidateRow(q, emb) :
                    q \in {x \in registry : x.mailbox_id = mailbox_id /\ x.is_active}}
        n == Cardinality(rows)
        orders == {seq \in [1..n -> rows] :
                     /\ \A r \in rows : \E i \in 1..n : seq[i] = r
                     /\ Ascending(seq)}
    IN  {SubSeq(seq, 1, Min(n, limit)) : seq \in orders}

\* if sim >= threshold
RoutesStrictly(sim, threshold) == sim > threshold
RoutesAtMost(sim, threshold) == sim <= threshold
Routes(sim, threshold) == sim >= threshold

\* the first row that clears the threshold of its own watcher, if any
FirstClearing(candidates) ==
    LET clearing == {i \in 1..Len(candidates) :
                        Routes(SimilarityFromCosineDistance(candidates[i].cosine_distance),
                               candidates[i].watcher_threshold)}
    IN  IF clearing = {} THEN candidates[1]
        ELSE candidates[CHOOSE i \in clearing : \A j \in clearing : i <= j]

\* best = candidates[0]
Best(candidates) == candidates[1]

\* the routed event `out`
RoutedEvent(f, best, sim) ==
    [trace_id |-> f.trace_id, mailbox_id |-> f.mailbox_id, idemp_key |-> f.idemp_key,
     body_hash |-> f.body_hash, text_content |-> f.text_content, subject |-> f.subject,
     external_id |-> f.external_id, received_ts |-> f.received_ts,
     filter_watcher_id |-> best.watcher_id, filter_watcher_name |-> best.watcher_name,
     filter_query_id |-> best.query_id, filter_query_text |-> best.query_text,
     filter_similarity |-> sim]

NoBest == [watcher_id |-> ""]

\* a call of a collaborator made while handling entry i
WCalled(i, call, emb) ==
    wCalls' = wCalls \cup {[idx |-> i, call |-> call, emb |-> emb]}

WDecided(i, decision, best) ==
    wLog' = wLog \cup {[idx |-> i, decision |-> decision, best |-> best]}

\* where the handler goes once it has decided: the routed branch appends and
\* falls through to the ack, every other branch acks and continues
AfterDecisionAckAtOnce(decision) == "ack"
AfterDecision(decision) == IF decision = "routed" THEN "emit" ELSE "ack"

\* if len(email_text) < 40
TooShortUpTo40(email_text) == email_text.len <= MIN_EMAIL_TEXT
TooShort(email_text) == email_text.len < MIN_EMAIL_TEXT

\* msgs = r.xreadgroup(GROUP, consumer, {STREAM_IN: ">"}, count=1), then the
\* checks made before the first collaborator call:
\*   if not mailbox_id or not body_hash: ack, continue
\*   if len(email_text) < 40: ack, continue
WRead(w) ==
    /\ wPc[w] = "read"
    /\ XReadGroup(NORM)
    /\ wCur' = [wCur EXCEPT ![w] = NextId(NORM)]
    /\ wEmb' = [wEmb EXCEPT ![w] = NoEmb]
    /\ wBest' = [wBest EXCEPT ![w] = NoBest]
    /\ LET f == Fields(NORM, NextId(NORM))
           d == IF f.mailbox_id = "" \/ f.body_hash = NoHash THEN "missing_fields"
                ELSE IF TooShort(BuildEmailText(f.subject, f.text_content))
                     THEN "short_text" ELSE "go"
       IN  IF d = "go"
           THEN /\ wPc' = [wPc EXCEPT ![w] = "lookup"]
                /\ UNCHANGED wLog
           ELSE /\ wPc' = [wPc EXCEPT ![w] = AfterDecision(d)]
                /\ WDecided(NextId(NORM), d, NoBest)
    /\ UNCHANGED <<wEmits, embCache, registry, cacheOnly, embedCalls, wCalls>>

CacheRowsNone(mailbox_id, body_hash) == {}
CacheRows(mailbox_id, body_hash) ==
    {c \in embCache : c.mailbox_id = mailbox_id /\ c.body_hash = body_hash}

\* if CACHE_ONLY: (in the branch of an empty `cached`)
SkipsOnMissNever(cache_only) == FALSE
SkipsOnMiss(cache_only) == cache_only

\* cached = sb.table("email_embeddings").select(...).eq(mailbox_id).eq(body_hash).limit(1)
WLookup(w) ==
    /\ wPc[w] = "lookup"
    /\ LET f == Fields(NORM, wCur[w])
           cached == CacheRows(f.mailbox_id, f.body_hash)
       IN  IF cached # {}
           THEN /\ \E c \in cached : wEmb' = [wEmb EXCEPT ![w] = c.email_embedding]
                /\ wPc' = [wPc EXCEPT ![w] = "match"]
                /\ UNCHANGED wLog
           ELSE IF SkipsOnMiss(cacheOnly)
           THEN /\ WDecided(wCur[w], "cache_miss", NoBest)
                /\ wPc' = [wPc EXCEPT ![w] = AfterDecision("cache_miss")]
                /\ UNCHANGED wEmb
           ELSE /\ wPc' = [wPc EXCEPT ![w] = "embed"]
                /\ UNCHANGED <<wEmb, wLog>>
    /\ WCalled(wCur[w], "cache_lookup", NoEmb)
    /\ UNCHANGED <<brokerVars, wCur, wBest, wEmits, embCache, registry, cacheOnly, embedCalls>>

\* emb_resp = vo.embed(texts=[email_text], model=VOYAGE_MODEL)
WEmbed(w) ==
    /\ wPc[w] = "embed"
    /\ LET f == Fields(NORM, wCur[w])
       IN  wEmb' = [wEmb EXCEPT ![w] = Embed(BuildEmailText(f.subject, f.text_content))]
    /\ embedCalls' = embedCalls + 1
    /\ WCalled(wCur[w], "embed", NoEmb)
    /\ wPc' = [wPc EXCEPT ![w] = "upsert"]
    /\ UNCHANGED <<brokerVars, wCur, wBest, wLog, wEmits, embCache, registry, cacheOnly>>

\* the rows an upsert into email_embeddings conflicts with: (mailbox_id,
\* body_hash) is the unique key of the table
ConflictsWithNone(mailbox_id, body_hash) == {}
ConflictingRows(mailbox_id, body_hash) ==
    {c \in embCache : c.mailbox_id = mailbox_id /\ c.body_hash = body_hash}

\* sb.table("email_embeddings").upsert({mailbox_id, body_hash, email_embedding})
UpsertEmbedding(mailbox_id, body_hash, emb) ==
    (embCache \ ConflictingRows(mailbox_id, body_hash))
        \cup {[mailbox_id |-> mailbox_id, body_hash |-> body_hash, email_embedding |-> emb]}

WUpsert(w) ==
    /\ wPc[w] = "upsert"
    /\ LET f == Fields(NORM, wCur[w])
       IN  embCache' = UpsertEmbedding(f.mailbox_id, f.body_hash, wEmb[w])
    /\ wPc' = [wPc EXCEPT ![w] = "match"]
    /\ WCalled(wCur[w], "cache_upsert", wEmb[w])
    /\ UNCHANGED <<brokerVars, wCur, wEmb, wBest, wLog, wEmits, registry, cacheOnly, embedCalls>>

\* rpc = sb.rpc("match_watcher_queries", ...); candidates = rpc.data or [];
\* best = candidates[0]; the decision sim >= threshold
WMatch(w) ==
    /\ wPc[w] = "match"
    /\ \E candidates \in MatchWatcherQueries(Fields(NORM, wCur[w]).mailbox_id, wEmb[w], TOP_K) :
         IF candidates = <<>>
         THEN /\ WDecided(wCur[w], "no_candidates", NoBest)
              /\ wPc' = [wPc EXCEPT ![w] = AfterDecision("no_candidates")]
              /\ UNCHANGED wBest
         ELSE LET best == Best(candidates)
                  sim == SimilarityFromCosineDistance(best.cosine_distance)
              IN  /\ wBest' = [wBest EXCEPT ![w] = best]
                  /\ IF Routes(sim, best.watcher_threshold)
                     THEN /\ WDecided(wCur[w], "routed", best)
                          /\ wPc' = [wPc EXCEPT ![w] = AfterDecision("routed")]
                     ELSE /\ WDecided(wCur[w], "below_threshold", best)
                          /\ wPc' = [wPc EXCEPT ![w] = AfterDecision("below_threshold")]
    /\ WCalled(wCur[w], "vector_search", wEmb[w])
    /\ UNCHANGED <<brokerVars, wCur, wEmb, wEmits, embCache, registry, cacheOnly, embedCalls>>

\* out_id = r.xadd(STREAM_OUT, out)
WEmit(w) ==
    /\ wPc[w] = "emit"
    /\ LET best == wBest[w]
           sim == SimilarityFromCosineDistance(best.cosine_distance)
       IN  stream' = XAdded(TOCLS, RoutedEvent(Fields(NORM, wCur[w]), best, sim))
    /\ wEmits' = wEmits \cup {[idx |-> wCur[w], out |-> Len(stream[TOCLS]) + 1]}
    /\ wPc' = [wPc EXCEPT ![w] = "ack"]
    /\ UNCHANGED <<lastDelivered, pending, wCur, wEmb, wBest, wLog, embCache, registry,
                   cacheOnly, embedCalls, wCalls>>

\* r.xack(STREAM_IN, GROUP, msg_id)
WAck(w) ==
    /\ wPc[w] = "ack"
    /\ XAck(NORM, wCur[w])
    /\ wPc' = [wPc EXCEPT ![w] = "read"]
    /\ wCur' = [wCur EXCEPT ![w] = 0]
    /\ UNCHANGED <<wEmb, wBest, wLog, wEmits, embCache, registry, cacheOnly, embedCalls, wCalls>>

\* except Exception: log.exception, sleep(2), next iteration (any collaborator
\* call raised), or the worker process died: nothing is acked.
WFault(w) ==
    /\ wPc[w] # "read"
    /\ wPc' = [wPc EXCEPT ![w] = "read"]
    /\ wCur' = [wCur EXCEPT ![w] = 0]
    /\ WDecided(wCur[w], "fault", NoBest)
    /\ UNCHANGED <<brokerVars, wEmb, wBest, wEmits, embCache, registry, cacheOnly, embedCalls,
                   wCalls>>

----------------------------------------------------------------------------
\* Normalizer (src/workers/normalizer/main.py)

NWorkers == {1}

TEXT_CONTENT_LIMIT == 1000

\* The raw_email_b64 field of a raw event is [kind, text] with kind
\*   "empty"        the field is '' or missing
\*   "bad_padding"  not base64: wrong length or padding, such as 'abc'
\*   "bad_chars"    not base64: only characters outside the alphabet, such as '!!!!'
\*   "not_mime"     the base64 of bytes that are no MIME message (text: the bytes)
\*   "parse_error"  the base64 of bytes on which something inside parse_email raises
\*   "ok"           the base64 of a mail; text is its final_text after
\*                  html_to_text and strip_trackers
NoData == [text_content |-> EmptyStr, body_hash |-> NoHash]

\* base64.b64decode(raw_email_b64), called without validate: characters outside
\* the alphabet are discarded before the padding check, so 'abc' raises
\* binascii.Error while '!!!!' decodes to b''.
B64Decode(raw) ==
    [raised |-> raw.kind = "bad_padding",
     bytes |-> IF raw.kind = "bad_chars" THEN [kind |-> "not_mime", text |-> EmptyStr] ELSE raw]

\* parse_email.  email.message_from_bytes reports no defect of its input: bytes
\* that are no MIME message come out as a single-part text/plain message whose
\* payload is the bytes.  body_hash is the sha256 hex digest of final_text, a
\* non-empty string also for an empty final_text; it is '' only on the except
\* path.
ParseEmail(bytes) ==
    IF bytes.kind \in {"ok", "not_mime"}
    THEN [text_content |-> bytes.text, body_hash |-> Sha256(bytes.text)]
    ELSE NoData

\* text_content published whole
KeepAll(t, n) == t

\* normalized_data.get('text_content', '')[:1000]
Truncate(t, n) == Str(t.id, Min(t.len, n))

\* message_data with an idemp_key computed anew from the content
NormalizedEventKeyedByBody(data, f) ==
    [trace_id |-> f.trace_id, mailbox_id |-> f.mailbox_id,
     idemp_key |-> [sha |-> <<f.mailbox_id, data.body_hash>>],
     body_hash |-> data.body_hash,
     text_content |-> Truncate(data.text_content, TEXT_CONTENT_LIMIT),
     subject |-> f.subject, external_id |-> f.external_id, received_ts |-> f.received_ts]

\* message_data of publish_normalized
NormalizedEvent(data, f) ==
    [trace_id |-> f.trace_id, mailbox_id |-> f.mailbox_id, idemp_key |-> f.idemp_key,
     body_hash |-> data.body_hash,
     text_content |-> Truncate(data.text_content, TEXT_CONTENT_LIMIT),
     subject |-> f.subject, external_id |-> f.external_id, received_ts |-> f.received_ts]

\* r.xreadgroup('normalizer-g', consumer, {'raw_emails.v1': '>'}, count=1), then
\* b64decode and parse_email; publish only if normalized_data has a body_hash
NRead(w) ==
    /\ nPc[w] = "read"
    /\ XReadGroup(RAW)
    /\ nCur' = [nCur EXCEPT ![w] = NextId(RAW)]
    /\ LET raw == Fields(RAW, NextId(RAW)).raw_email_b64
           decoded == B64Decode(raw)
           data == IF raw.kind = "empty" \/ decoded.raised THEN NoData
                   ELSE ParseEmail(decoded.bytes)
       IN  /\ nData' = [nData EXCEPT ![w] = data]
           /\ nPc' = [nPc EXCEPT ![w] = IF data.body_hash # NoHash THEN "publish" ELSE "ack"]
    /\ UNCHANGED nEmits

\* publish_normalized: r.xadd('emails.normalized.v1', message_data); an
\* exception of the append is logged and swallowed.
NPublish(w) ==
    /\ nPc[w] = "publish"
    /\ \E ok \in BOOLEAN :
         IF ok
         THEN /\ stream' = XAdded(NORM, NormalizedEvent(nData[w], Fields(RAW, nCur[w])))
              /\ nEmits' = nEmits \cup {[idx |-> nCur[w], out |-> Len(stream[NORM]) + 1]}
         ELSE UNCHANGED <<stream, nEmits>>
    /\ nPc' = [nPc EXCEPT ![w] = "ack"]
    /\ UNCHANGED <<lastDelivered, pending, nCur, nData>>

\* r.xack('raw_emails.v1', 'normalizer-g', message_id)
NAck(w) ==
    /\ nPc[w] = "ack"
    /\ XAck(RAW, nCur[w])
    /\ nPc' = [nPc EXCEPT ![w] = "read"]
    /\ nCur' = [nCur EXCEPT ![w] = 0]
    /\ UNCHANGED <<nData, nEmits>>

\* an except clause that acknowledges the entry in hand
NFaultAcking(w) ==
    /\ nPc[w] # "read"
    /\ XAck(RAW, nCur[w])
    /\ nPc' = [nPc EXCEPT ![w] = "read"]
    /\ nCur' = [nCur EXCEPT ![w] = 0]
    /\ UNCHANGED <<nData, nEmits>>

\* except Exception around the loop body, or a crash of the worker
NFault(w) ==
    /\ nPc[w] # "read"
    /\ nPc' = [nPc EXCEPT ![w] = "read"]
    /\ nCur' = [nCur EXCEPT ![w] = 0]
    /\ UNCHANGED <<brokerVars, nData, nEmits>>

NormInit ==
    /\ nPc = [w \in NWorkers |-> "read"]
    /\ nCur = [w \in NWorkers |-> 0]
    /\ nData = [w \in NWorkers |-> NoData]
    /\ nEmits = {}

----------------------------------------------------------------------------
\* IMAP poller (src/services/imap_poller/main.py)

\* Bounds of the poller model.
MaxUid == 3         \* messages that ever arrive in INBOX
MaxPolls == 3       \* polls made over all runs of the poller
MaxRestarts == 1    \* restarts of the poller process

\* MAX_EMAILS and TEST_BATCH_SIZE are 100 in the source; the model keeps the
\* cap and scales it down so that a mailbox can exceed it.
MAX_EMAILS == 2
TEST_BATCH_SIZE == 2
NUM_STREAMS == 3

MAILBOX_ID == "alice@gmail.com"

\* the value met last
Latest(a, b) == b

Max(a, b) == IF a > b THEN a ELSE b

RECURSIVE SortedSeq(_)
SortedSeq(S) ==
    IF S = {} THEN <<>>
    ELSE LET m == CHOOSE x \in S : \A y \in S : x <= y
         IN  <<m>> \o SortedSeq(S \ {m})

Range(seq) == {seq[i] : i \in 1..Len(seq)}

\* uids[-MAX_EMAILS:]
LastN(seq, n) == IF Len(seq) <= n THEN seq ELSE SubSeq(seq, Len(seq) - n + 1, Len(seq))
\* emails[:TEST_BATCH_SIZE]
FirstN(seq, n) == IF Len(seq) <= n THEN seq ELSE SubSeq(seq, 1, n)

AllUids == 1..Len(mailbox)

\* mail.uid('SEARCH', None, search_criteria) and the filter that follows:
\*   initial: (SINCE <450 days ago>), every message of the window
\*   incremental, last_uid > 0: UID last_uid+1:* (which also returns the last
\*     existing UID when nothing is newer), then u > last_uid
\*   incremental, last_uid = 0: ALL
SearchUidsUnfiltered(last_uid, is_initial_scan) ==
    IF is_initial_scan THEN AllUids
    ELSE IF last_uid > 0
         THEN {v \in AllUids : v >= last_uid + 1 \/ v = Len(mailbox)}
         ELSE AllUids

SearchUids(last_uid, is_initial_scan) ==
    IF is_initial_scan THEN AllUids
    ELSE IF last_uid > 0
         THEN {u \in {v \in AllUids : v >= last_uid + 1 \/ v = Len(mailbox)} : u > last_uid}
         ELSE AllUids

\* sorted(uids)[-MAX_EMAILS:]
UidsToFetch(last_uid, is_initial_scan) ==
    LastN(SortedSeq(SearchUids(last_uid, is_initial_scan)), MAX_EMAILS)

\* external_id = email_data.get('message_id') or str(email_data.get('uid'))
ExternalId(m) == IF m.message_id # "" THEN m.message_id ELSE ToString(m.uid)

\* The mailbox addresses of the model, each kept with its parts: the text
\* before the '@', the first label of the domain and the rest of the domain.
Mailboxes ==
    {[local |-> "alice", label |-> "gmail", rest |-> ".com"],
     [local |-> "joe", label |-> "mail", rest |-> ".co"],
     [local |-> "joe", label |-> "mail", rest |-> ".com"]}

Address(p) == p.local \o "@" \o p.label \o p.rest

\* provider of publish_email: 'gmail' when '@gmail.com' is in mailbox_id,
\* 'outlook' for '@outlook.com' and '@hotmail.com', else
\* mailbox_id.split('@')[1].split('.')[0], 'unknown' without an '@'
Provider(mailbox_id) ==
    IF \E p \in Mailboxes : Address(p) = mailbox_id
    THEN LET p == CHOOSE q \in Mailboxes : Address(q) = mailbox_id
         IN  IF p.label = "gmail" /\ p.rest = ".com" THEN "gmail"
             ELSE IF p.label \in {"outlook", "hotmail"} /\ p.rest = ".com" THEN "outlook"
             ELSE p.label
    ELSE "unknown"

\* a key that also takes in the time of the call
BuildIdempotencyKeyWithTime(provider, mailbox_id, external_id, now) ==
    [sha |-> provider \o mailbox_id \o external_id \o ToString(now)]

\* build_idempotency_key: sha256(provider + mailbox_id + external_id), the
\* digest standing for the string it was computed from
BuildIdempotencyKey(provider, mailbox_id, external_id) ==
    [sha |-> provider \o mailbox_id \o external_id]

\* an event whose key changes from one publication to the next
RawEventKeyedByTime(mailbox_id, m, now) ==
    [trace_id |-> now, mailbox_id |-> mailbox_id, received_ts |-> m.date,
     idemp_key |-> BuildIdempotencyKeyWithTime(Provider(mailbox_id), mailbox_id, ExternalId(m), now),
     subject |-> m.subject, external_id |-> ExternalId(m), raw_email_b64 |-> m.raw]

\* the fields publish_email appends to raw_emails.v1
RawEventOf(mailbox_id, m, now) ==
    [trace_id |-> now, mailbox_id |-> mailbox_id, received_ts |-> m.date,
     idemp_key |-> BuildIdempotencyKey(Provider(mailbox_id), mailbox_id, ExternalId(m)),
     subject |-> m.subject, external_id |-> ExternalId(m), raw_email_b64 |-> m.raw]

RawEvent(m, now) == RawEventOf(MAILBOX_ID, m, now)

\* get_scan_status: the row, inserted (FALSE, 0) when absent; any exception
\* gives (False, 0) and leaves the transaction of the connection failed.
ZeroStatus == [completed |-> FALSE, uid |-> 0]

\* update_scan_status: UPDATE ... WHERE mailbox_id (no row, no effect); inside
\* a failed transaction, or on any other error, it rolls back and returns.
UpdatedRow(last_uid, initial_completed) ==
    IF ~scanRow.exists THEN scanRow
    ELSE [exists |-> TRUE, completed |-> scanRow.completed \/ initial_completed,
          uid |-> last_uid]

UpdateScanStatus(last_uid, initial_completed) ==
    \E ok \in BOOLEAN :
      /\ scanRow' = IF ok /\ ~pgTxnAborted THEN UpdatedRow(last_uid, initial_completed)
                    ELSE scanRow
      /\ pgTxnAborted' = FALSE

\* main() up to the loop: connect_to_postgres (None on failure), then
\* get_scan_status when connected.
PollerStart ==
    /\ poPc = "down"
    /\ \E conn \in BOOLEAN, readOk \in BOOLEAN :
         /\ pgConn' = conn
         /\ IF conn /\ readOk
            THEN /\ scanRow' = IF scanRow.exists THEN scanRow
                               ELSE [exists |-> TRUE, completed |-> FALSE, uid |-> 0]
                 /\ isInitialScan' = IF scanRow.exists THEN ~scanRow.completed ELSE TRUE
                 /\ lastUid' = IF scanRow.exists THEN scanRow.uid ELSE 0
                 /\ pgTxnAborted' = FALSE
            ELSE /\ scanRow' = scanRow
                 /\ isInitialScan' = ~ZeroStatus.completed
                 /\ lastUid' = ZeroStatus.uid
                 /\ pgTxnAborted' = conn
    /\ poPc' = "poll"
    /\ pollBatch' = <<>>
    /\ pollDone' = {}
    /\ pollMax' = 0
    /\ pollInitial' = FALSE
    /\ UNCHANGED <<brokerVars, mailbox, polls, restarts, poLog>>

\* emails = poll_emails(mail, last_uid, is_initial_scan): SEARCH, keep the
\* last MAX_EMAILS UIDs, FETCH each (a FETCH whose status is not OK is left
\* out); any IMAP exception gives [].  Then emails[:TEST_BATCH_SIZE] when
\* initial, max_uid = last_uid.
PollFetch ==
    /\ poPc = "poll"
    /\ polls < MaxPolls
    /\ polls' = polls + 1
    /\ \E imapOk \in BOOLEAN :
       \E notOk \in SUBSET Range(UidsToFetch(lastUid, isInitialScan)) :
         LET uids == UidsToFetch(lastUid, isInitialScan)
             emails == IF imapOk THEN SortedSeq(Range(uids) \ notOk) ELSE <<>>
             batch == IF isInitialScan THEN FirstN(emails, TEST_BATCH_SIZE) ELSE emails
         IN  /\ imapOk \/ notOk = {}
             /\ pollBatch' = batch
             /\ poLog' = [poLog EXCEPT !.imapFailed = ~imapOk,
                                       !.fetched = @ \cup Range(batch),
                                       !.searched = IF imapOk /\ isInitialScan
                                                    THEN @ \cup SearchUids(lastUid, isInitialScan)
                                                    ELSE @]
             /\ poPc' = IF batch = <<>> THEN "commit" ELSE "publish"
    /\ pollInitial' = isInitialScan
    /\ pollDone' = {}
    /\ pollMax' = lastUid
    /\ UNCHANGED <<brokerVars, mailbox, scanRow, pgTxnAborted, pgConn, isInitialScan, lastUid,
                   restarts>>

\* The emails are processed in chunks of NUM_STREAMS; the futures of one chunk
\* complete in any order.
ChunkOf(i) == (i - 1) \div NUM_STREAMS
PosOf(u) == CHOOSE i \in 1..Len(pollBatch) : pollBatch[i] = u
CurrentChunk ==
    LET left == {i \in 1..Len(pollBatch) : pollBatch[i] \notin pollDone}
        c == ChunkOf(CHOOSE i \in left : \A j \in left : i <= j)
    IN  {pollBatch[i] : i \in {j \in left : ChunkOf(j) = c}}

\* classify_subject_with_ai: what the subject gate's LLM call comes back with.
\* "error" is a missing API key or any exception of the call or of the
\* parsing, "no_json" a reply in which neither pattern finds a JSON object.
SubjectResponses ==
    {[kind |-> k, confidence |-> 0, is_subscription |-> FALSE] : k \in {"error", "no_json"}}
        \cup {[kind |-> "json", confidence |-> c, is_subscription |-> s] :
                  c \in {69, 70}, s \in BOOLEAN}

\* classify_subject_with_ai returns {confidence, is_subscription} of the JSON
\* reply and {} otherwise.
ClassifySubjectWithAi(resp) ==
    IF resp.kind = "json"
    THEN [confidence |-> resp.confidence, is_subscription |-> resp.is_subscription]
    ELSE <<>>

\* if confidence < 0.7 or not is_subscription: return
GatePasses(confidence, is_subscription) == ~(confidence < PublishConfidence \/ ~is_subscription)

\* one publish_email future and the as_completed body that follows it:
\* subject gate, r.xadd('raw_emails.v1', ...); every exception is caught inside
\* publish_email, so future.result() returns and max_uid moves.
PollPublish(u) ==
    /\ poPc = "publish"
    /\ u \in CurrentChunk
    /\ \E resp \in SubjectResponses, xaddOk \in BOOLEAN :
         LET subject_classification == ClassifySubjectWithAi(resp)
             confidence == Get(subject_classification, "confidence", 0)
             is_subscription == Get(subject_classification, "is_subscription", FALSE)
         IN  IF GatePasses(confidence, is_subscription)
             THEN IF xaddOk
                  THEN /\ stream' = XAdded(RAW, RawEvent(mailbox[u], polls))
                       /\ poLog' = [poLog EXCEPT !.published = @ \cup {u},
                                                 !.passed = @ \cup {u}]
                  ELSE /\ stream' = stream
                       /\ poLog' = [poLog EXCEPT !.xaddFailed = @ \cup {u},
                                                 !.passed = @ \cup {u}]
             ELSE /\ xaddOk
                  /\ UNCHANGED <<stream, poLog>>
    /\ pollDone' = pollDone \cup {u}
    /\ pollMax' = Max(pollMax, u)
    /\ poPc' = IF Range(pollBatch) \subseteq pollDone \cup {u} THEN "commit" ELSE "publish"
    /\ UNCHANGED <<lastDelivered, pending, mailbox, scanRow, pgTxnAborted, pgConn,
                   isInitialScan, lastUid, pollBatch, pollInitial, polls, restarts>>

\* the end of the loop body: last_uid = max_uid and the scan status write
\* when emails were found; the switch out of the initial scan.
PollCommit ==
    /\ poPc = "commit"
    /\ IF pollBatch # <<>>
       THEN /\ lastUid' = pollMax
            /\ IF pgConn
               THEN /\ UpdateScanStatus(pollMax, isInitialScan)
                    /\ isInitialScan' = FALSE
               ELSE UNCHANGED <<scanRow, pgTxnAborted, isInitialScan>>
       ELSE /\ lastUid' = lastUid
            /\ IF isInitialScan
               THEN /\ IF pgConn THEN UpdateScanStatus(lastUid, TRUE)
                                 ELSE UNCHANGED <<scanRow, pgTxnAborted>>
                    /\ isInitialScan' = FALSE
               ELSE UNCHANGED <<scanRow, pgTxnAborted, isInitialScan>>
    /\ poPc' = "poll"
    /\ pollBatch' = <<>>
    /\ pollDone' = {}
    /\ pollMax' = lastUid'
    /\ poLog' = [poLog EXCEPT !.xaddFailed = {}, !.passed = {}, !.imapFailed = FALSE]
    /\ UNCHANGED <<brokerVars, mailbox, pgConn, pollInitial, polls, restarts>>

\* the poller process dies (at any point) and is started again by PollerStart
PollerCrash ==
    /\ poPc # "down"
    /\ restarts < MaxRestarts
    /\ restarts' = restarts + 1
    /\ poPc' = "down"
    /\ pgConn' = FALSE
    /\ isInitialScan' = TRUE
    /\ lastUid' = 0
    /\ pollBatch' = <<>>
    /\ pollInitial' = FALSE
    /\ pollDone' = {}
    /\ pollMax' = 0
    /\ pgTxnAborted' = FALSE
    /\ poLog' = [poLog EXCEPT !.xaddFailed = {}, !.passed = {}, !.imapFailed = FALSE]
    /\ UNCHANGED <<brokerVars, mailbox, scanRow, polls>>

\* a message arrives in INBOX and gets the next UID
\* (every second message carries no Message-ID header)
Message(u) ==
    [uid |-> u, message_id |-> IF u % 2 = 1 THEN "<m" \o ToString(u) \o "@x>" ELSE "",
     subject |-> Str(u, 12), date |-> ToString(1000 + u),
     raw |-> [kind |-> "ok", text |-> Str(u, 60)]]

MailArrives ==
    /\ Len(mailbox) < MaxUid
    /\ mailbox' = Append(mailbox, Message(Len(mailbox) + 1))
    /\ UNCHANGED <<brokerVars, scanRow, pgTxnAborted, poPc, pgConn, isInitialScan, lastUid,
                   pollBatch, pollInitial, pollDone, pollMax, polls, restarts, poLog>>

PollInit ==
    /\ mailbox = <<>>
    /\ scanRow = [exists |-> FALSE, completed |-> FALSE, uid |-> 0]
    /\ pgTxnAborted = FALSE
    /\ poPc = "down"
    /\ pgConn = FALSE
    /\ isInitialScan = TRUE
    /\ lastUid = 0
    /\ pollBatch = <<>>
    /\ pollInitial = FALSE
    /\ pollDone = {}
    /\ pollMax = 0
    /\ polls = 0
    /\ restarts = 0
    /\ poLog = [fetched |-> {}, searched |-> {}, xaddFailed |-> {}, passed |-> {},
                published |-> {}, imapFailed |-> FALSE]

WatchInit ==
    /\ wPc = [w \in WWorkers |-> "read"]
    /\ wCur = [w \in WWorkers |-> 0]
    /\ wEmb = [w \in WWorkers |-> NoEmb]
    /\ wBest = [w \in WWorkers |-> NoBest]
    /\ wLog = {}
    /\ wEmits = {}
    /\ embedCalls = 0
    /\ wCalls = {}

----------------------------------------------------------------------------
\* Specifications.  Each stage is checked on its own, fed from an input
\* stream that holds up to MaxEvents entries, and the stages are checked
\* together in the pipeline specification Spec.

vars == <<brokerVars, persVars, dbVars, clsVars, watchVars, normVars, pollVars>>

SeqsUpTo(S, n) == UNION {[1..k -> S] : k \in 0..n}
Entries(evs) == [i \in 1..Len(evs) |-> [ev |-> evs[i], delivered |-> 0, acks |-> 0]]

BrokerInit(s, samples) ==
    /\ \E evs \in SeqsUpTo(samples, MaxEvents) :
         stream = [EmptyStreams EXCEPT ![s] = Entries(evs)]
    /\ lastDelivered = EmptyGroups
    /\ pending = EmptyPending

\* a registry and cache for the specifications that do not run the watcher
WatchIdle ==
    /\ WatchInit
    /\ embCache = {}
    /\ registry = {}
    /\ cacheOnly = FALSE

\* ---- the persister alone ----
SubjA == Str(1, 12)
SubjB == Str(2, 12)
BodyA == Str(1, 60)

ClassifiedSamples ==
    {[trace_id |-> "t1", mailbox_id |-> MAILBOX_ID, idemp_key |-> k,
      body_hash |-> Sha256(Str(subj.id, 60)), subject |-> subj, external_id |-> k,
      received_ts |-> ToString(1000 + subj.id), class |-> "Billing", confidence |-> 90,
      watcher_id |-> "w1", extracted_data |-> "{vendor}"] :
        k \in {"k1", "k2"}, subj \in {SubjA, SubjB}}

InitPersister ==
    /\ BrokerInit(CLSD, ClassifiedSamples)
    /\ PersInit /\ ClsInit /\ WatchIdle /\ NormInit /\ PollInit

NextPersister ==
    \/ \E w \in PWorkers : PRead(w) /\ UNCHANGED <<clsVars, watchVars, normVars, pollVars>>
    \/ \E w \in PWorkers : PSaveMessage(w) /\ UNCHANGED <<clsVars, watchVars, normVars, pollVars>>
    \/ \E w \in PWorkers : PSaveClassification(w) /\ UNCHANGED <<clsVars, watchVars, normVars, pollVars>>
    \/ \E w \in PWorkers : PAck(w) /\ UNCHANGED <<clsVars, watchVars, normVars, pollVars>>
    \/ \E w \in PWorkers : PFault(w) /\ UNCHANGED <<clsVars, watchVars, normVars, pollVars>>

SpecPersister == InitPersister /\ [][NextPersister]_vars

\* ---- the persister alone, its loop running for ever ----
\* while True: a persister keeps reading and handling as long as it lives;
\* an exception or a crash (PFault) may happen and never has to.
PersisterProgress ==
    \E w \in PWorkers :
        /\ PRead(w) \/ PSaveMessage(w) \/ PSaveClassification(w) \/ PAck(w)
        /\ UNCHANGED <<clsVars, watchVars, normVars, pollVars>>

FairSpecPersister == SpecPersister /\ WF_vars(PersisterProgress)

\* ---- the normalizer alone ----
RawKinds == {"empty", "bad_padding", "bad_chars", "not_mime", "parse_error", "ok"}

\* raw events as publish_email writes them (one mail with a Message-ID, one
\* without), with every kind of raw_email_b64 field
\* and, for a mail, a final_text below, at and above the 1000 characters kept
BodyLengths == {60, TEXT_CONTENT_LIMIT, TEXT_CONTENT_LIMIT + 1}

RawSamples ==
    {[RawEvent(Message(u), u) EXCEPT
         !.raw_email_b64 = [kind |-> k,
                            text |-> IF k \in {"not_mime", "ok"} THEN Str(u, n) ELSE EmptyStr]] :
        u \in {1, 2}, k \in RawKinds, n \in BodyLengths}

InitNormalizer ==
    /\ BrokerInit(RAW, RawSamples)
    /\ NormInit
    /\ PersInit /\ ClsInit /\ WatchIdle /\ PollInit

NextNormalizer ==
    \/ \E w \in NWorkers : NRead(w) /\ UNCHANGED <<persVars, dbVars, clsVars, watchVars, pollVars>>
    \/ \E w \in NWorkers : NPublish(w) /\ UNCHANGED <<persVars, dbVars, clsVars, watchVars, pollVars>>
    \/ \E w \in NWorkers : NAck(w) /\ UNCHANGED <<persVars, dbVars, clsVars, watchVars, pollVars>>
    \/ \E w \in NWorkers : NFault(w) /\ UNCHANGED <<persVars, dbVars, clsVars, watchVars, pollVars>>

SpecNormalizer == InitNormalizer /\ [][NextNormalizer]_vars

\* ---- the classifier alone ----
ToClassifySamples ==
    {[trace_id |-> "t1", mailbox_id |-> MAILBOX_ID, idemp_key |-> "k1",
      body_hash |-> Sha256(BodyA), text_content |-> text, subject |-> SubjA,
      external_id |-> "k1", received_ts |-> "1001",
      filter_watcher_id |-> IF name = "" THEN "" ELSE "w1", filter_watcher_name |-> name,
      filter_query_id |-> IF name = "" THEN "" ELSE "q1",
      filter_query_text |-> IF name = "" THEN "" ELSE "invoice", filter_similarity |-> 8] :
        text \in {EmptyStr, BodyA}, name \in {"", "Billing"}}

InitClassifier ==
    /\ BrokerInit(TOCLS, ToClassifySamples)
    /\ PersInit /\ ClsInit /\ WatchIdle /\ NormInit /\ PollInit

NextClassifier ==
    \/ \E w \in CWorkers : CRead(w) /\ UNCHANGED <<persVars, dbVars, watchVars, normVars, pollVars>>
    \/ \E w \in CWorkers : CClassify(w) /\ UNCHANGED <<persVars, dbVars, watchVars, normVars, pollVars>>
    \/ \E w \in CWorkers : CPublish(w) /\ UNCHANGED <<persVars, dbVars, watchVars, normVars, pollVars>>
    \/ \E w \in CWorkers : CAck(w) /\ UNCHANGED <<persVars, dbVars, watchVars, normVars, pollVars>>
    \/ \E w \in CWorkers : CFault(w) /\ UNCHANGED <<persVars, dbVars, watchVars, normVars, pollVars>>

SpecClassifier == InitClassifier /\ [][NextClassifier]_vars

\* ---- the semantic watcher alone ----
\* with SubjA and the newline, BodyB makes an email text of exactly 40
\* characters and ShortBody one of 39
BodyB == Str(3, 27)
ShortBody == Str(2, 26)

NormSamples ==
    {[trace_id |-> "t1", mailbox_id |-> mb, idemp_key |-> "k1",
      body_hash |-> Sha256(text), text_content |-> text, subject |-> SubjA,
      external_id |-> "k1", received_ts |-> "1001"] :
        mb \in {MAILBOX_ID}, text \in {BodyA, BodyB, ShortBody}}
    \cup {[trace_id |-> "t1", mailbox_id |-> "", idemp_key |-> "k1",
           body_hash |-> Sha256(BodyA), text_content |-> BodyA, subject |-> SubjA,
           external_id |-> "k1", received_ts |-> "1001"]}

VecIds == {<<SubjA.id, BodyA.id>>, <<SubjA.id, BodyB.id>>}

Prototype(wid, name, threshold, qid, active, dist) ==
    [watcher_id |-> wid, watcher_name |-> name, watcher_threshold |-> threshold,
     query_id |-> qid, query_text |-> name, mailbox_id |-> MAILBOX_ID,
     is_active |-> active, dist |-> dist]

BillingPrototypes ==
    {Prototype("w1", "Billing", t, "q1", TRUE, d) : t \in {5, 7}, d \in [VecIds -> {3, 5}]}
FlightsPrototypes ==
    {Prototype("w2", "Flights", 9, "q2", a, d) : a \in BOOLEAN, d \in [VecIds -> {2, 5}]}

Registries ==
    {{}} \cup {{p} : p \in BillingPrototypes}
         \cup {{p, q} : p \in BillingPrototypes, q \in FlightsPrototypes}

InitWatcher ==
    /\ BrokerInit(NORM, NormSamples)
    /\ WatchInit
    /\ registry \in Registries
    /\ cacheOnly \in BOOLEAN
    /\ embCache \in {{}, {[mailbox_id |-> MAILBOX_ID, body_hash |-> Sha256(BodyA),
                           email_embedding |-> Embed(BuildEmailText(SubjA, BodyA))]}}
    /\ PersInit /\ ClsInit /\ NormInit /\ PollInit

NextWatcher ==
    \/ \E w \in WWorkers : WRead(w) /\ UNCHANGED <<persVars, dbVars, clsVars, normVars, pollVars>>
    \/ \E w \in WWorkers : WLookup(w) /\ UNCHANGED <<persVars, dbVars, clsVars, normVars, pollVars>>
    \/ \E w \in WWorkers : WEmbed(w) /\ UNCHANGED <<persVars, dbVars, clsVars, normVars, pollVars>>
    \/ \E w \in WWorkers : WUpsert(w) /\ UNCHANGED <<persVars, dbVars, clsVars, normVars, pollVars>>
    \/ \E w \in WWorkers : WMatch(w) /\ UNCHANGED <<persVars, dbVars, clsVars, normVars, pollVars>>
    \/ \E w \in WWorkers : WEmit(w) /\ UNCHANGED <<persVars, dbVars, clsVars, normVars, pollVars>>
    \/ \E w \in WWorkers : WAck(w) /\ UNCHANGED <<persVars, dbVars, clsVars, normVars, pollVars>>
    \/ \E w \in WWorkers : WFault(w) /\ UNCHANGED <<persVars, dbVars, clsVars, normVars, pollVars>>

SpecWatcher == InitWatcher /\ [][NextWatcher]_vars

\* ---- the semantic watcher alone, its loop running for ever ----
\* while True: the worker keeps reading and handling as long as it lives; an
\* exception or a crash (WFault) may happen and never has to.
WatcherProgress ==
    \E w \in WWorkers :
        /\ WRead(w) \/ WLookup(w) \/ WEmbed(w) \/ WUpsert(w) \/ WMatch(w) \/ WEmit(w) \/ WAck(w)
        /\ UNCHANGED <<persVars, dbVars, clsVars, normVars, pollVars>>

FairSpecWatcher == SpecWatcher /\ WF_vars(WatcherProgress)

\* ---- two semantic watchers of one consumer group ----
\* Two worker processes share semantic-filter-g, the cache and the registry.
\* The input holds mails of one mailbox with the same body and different
\* subjects: the same cache key, different email texts.
WPair == {1, 2}

PairSamples ==
    {[trace_id |-> "t1", mailbox_id |-> MAILBOX_ID, idemp_key |-> k,
      body_hash |-> Sha256(BodyA), text_content |-> BodyA, subject |-> subj,
      external_id |-> k, received_ts |-> "1001"] :
        k \in {"k1"}, subj \in {SubjA, SubjB}}

PairVecIds == {<<SubjA.id, BodyA.id>>, <<SubjB.id, BodyA.id>>}

PairRegistry == {Prototype("w1", "Billing", 5, "q1", TRUE, [v \in PairVecIds |-> 3])}

InitWatcherPair ==
    /\ BrokerInit(NORM, PairSamples)
    /\ wPc = [w \in WPair |-> "read"]
    /\ wCur = [w \in WPair |-> 0]
    /\ wEmb = [w \in WPair |-> NoEmb]
    /\ wBest = [w \in WPair |-> NoBest]
    /\ wLog = {}
    /\ wEmits = {}
    /\ embedCalls = 0
    /\ wCalls = {}
    /\ registry = PairRegistry
    /\ cacheOnly = FALSE
    /\ embCache = {}
    /\ PersInit /\ ClsInit /\ NormInit /\ PollInit

NextWatcherPair ==
    \/ \E w \in WPair : WRead(w) /\ UNCHANGED <<persVars, dbVars, clsVars, normVars, pollVars>>
    \/ \E w \in WPair : WLookup(w) /\ UNCHANGED <<persVars, dbVars, clsVars, normVars, pollVars>>
    \/ \E w \in WPair : WEmbed(w) /\ UNCHANGED <<persVars, dbVars, clsVars, normVars, pollVars>>
    \/ \E w \in WPair : WUpsert(w) /\ UNCHANGED <<persVars, dbVars, clsVars, normVars, pollVars>>
    \/ \E w \in WPair : WMatch(w) /\ UNCHANGED <<persVars, dbVars, clsVars, normVars, pollVars>>
    \/ \E w \in WPair : WEmit(w) /\ UNCHANGED <<persVars, dbVars, clsVars, normVars, pollVars>>
    \/ \E w \in WPair : WAck(w) /\ UNCHANGED <<persVars, dbVars, clsVars, normVars, pollVars>>
    \/ \E w \in WPair : WFault(w) /\ UNCHANGED <<persVars, dbVars, clsVars, normVars, pollVars>>

SpecWatcherPair == InitWatcherPair /\ [][NextWatcherPair]_vars

\* ---- the poller alone ----
InitPoller ==
    /\ stream = EmptyStreams
    /\ lastDelivered = EmptyGroups
    /\ pending = EmptyPending
    /\ PollInit
    /\ PersInit /\ ClsInit /\ WatchIdle /\ NormInit

NextPoller ==
    \/ PollerStart /\ UNCHANGED <<persVars, dbVars, clsVars, watchVars, normVars>>
    \/ PollFetch /\ UNCHANGED <<persVars, dbVars, clsVars, watchVars, normVars>>
    \/ \E u \in 1..MaxUid : PollPublish(u) /\ UNCHANGED <<persVars, dbVars, clsVars, watchVars, normVars>>
    \/ PollCommit /\ UNCHANGED <<persVars, dbVars, clsVars, watchVars, normVars>>
    \/ PollerCrash /\ UNCHANGED <<persVars, dbVars, clsVars, watchVars, normVars>>
    \/ MailArrives /\ UNCHANGED <<persVars, dbVars, clsVars, watchVars, normVars>>

SpecPoller == InitPoller /\ [][NextPoller]_vars

\* ---- publish_email's identity fields, over mailboxes and messages ----
\* Pollers of several mailboxes append to the same raw_emails.v1.  A message
\* has a Message-ID header, whose text is the sender's, or none, and then
\* its UID is the external_id.
KeyMailboxes == {Address(p) : p \in Mailboxes}

KeyMessages ==
    {[Message(u) EXCEPT !.message_id = mid] : u \in {1, 2}, mid \in {"", "<1@x>", "m<1@x>"}}

PublishFor(mailbox_id, m) ==
    /\ Len(stream[RAW]) < MaxEvents
    /\ stream' = XAdded(RAW, RawEventOf(mailbox_id, m, Len(stream[RAW]) + 1))
    /\ UNCHANGED <<lastDelivered, pending>>

InitKeys ==
    /\ stream = EmptyStreams
    /\ lastDelivered = EmptyGroups
    /\ pending = EmptyPending
    /\ PersInit /\ ClsInit /\ WatchIdle /\ NormInit /\ PollInit

NextKeys ==
    \E mailbox_id \in KeyMailboxes, m \in KeyMessages :
        PublishFor(mailbox_id, m)
        /\ UNCHANGED <<persVars, dbVars, clsVars, watchVars, normVars, pollVars>>

SpecKeys == InitKeys /\ [][NextKeys]_vars

\* ---- every worker loop, one stage at a time ----
\* The behaviours of the four stage specifications side by side: the stage
\* whose input stream is filled at the start runs, the others have nothing
\* to read (the watcher stage with two workers).
InitWorkers == InitNormalizer \/ InitWatcherPair \/ InitClassifier \/ InitPersister

NextWorkers ==
    \/ stream[RAW] # <<>> /\ NextNormalizer
    \/ stream[RAW] = <<>> /\ stream[NORM] # <<>> /\ NextWatcherPair
    \/ stream[RAW] = <<>> /\ stream[NORM] = <<>> /\ stream[TOCLS] # <<>> /\ NextClassifier
    \/ stream[RAW] = <<>> /\ stream[NORM] = <<>> /\ stream[TOCLS] = <<>> /\ NextPersister

SpecWorkers == InitWorkers /\ [][NextWorkers]_vars

\* ---- the pipeline: raw_emails.v1 to the database ----
\* One mail is appended to raw_emails.v1 up to MaxReplays times and every
\* append runs through normalizer, watcher, classifier and two persisters in
\* any interleaving.  The appends of the upstream stages and the upserts may
\* fail and the persisters may crash; an upstream stage that raises or dies
\* leaves the same streams behind as one whose append failed, and is
\* exercised in the specification of that stage.
MaxReplays == 2     \* raw events appended to raw_emails.v1

\* publish_email appends the event of a mail again whenever the poller
\* fetches that mail again; each append carries a fresh trace_id.
Replay(u) ==
    /\ Len(stream[RAW]) < MaxReplays
    /\ stream' = XAdded(RAW, RawEvent(Message(u), Len(stream[RAW]) + 1))
    /\ UNCHANGED <<lastDelivered, pending>>

ReplayedUids == {1}

PipelineRegistry ==
    {Prototype("w1", "Billing", 7, "q1", TRUE,
               [v \in {<<u, u>> : u \in ReplayedUids} |-> 3])}

PipelineResponses == {[kind |-> "error"], Json("Other", 150, "{vendor}")}

Init ==
    /\ stream = EmptyStreams
    /\ lastDelivered = EmptyGroups
    /\ pending = EmptyPending
    /\ PersInit /\ ClsInit /\ NormInit /\ PollInit
    /\ WatchInit
    /\ registry = PipelineRegistry
    /\ cacheOnly = FALSE
    /\ embCache = {}

NextStages ==
    \/ \E w \in NWorkers : NRead(w) /\ UNCHANGED <<persVars, dbVars, clsVars, watchVars, pollVars>>
    \/ \E w \in NWorkers : NPublish(w) /\ UNCHANGED <<persVars, dbVars, clsVars, watchVars, pollVars>>
    \/ \E w \in NWorkers : NAck(w) /\ UNCHANGED <<persVars, dbVars, clsVars, watchVars, pollVars>>
    \/ \E w \in WWorkers : WRead(w) /\ UNCHANGED <<persVars, dbVars, clsVars, normVars, pollVars>>
    \/ \E w \in WWorkers : WLookup(w) /\ UNCHANGED <<persVars, dbVars, clsVars, normVars, pollVars>>
    \/ \E w \in WWorkers : WEmbed(w) /\ UNCHANGED <<persVars, dbVars, clsVars, normVars, pollVars>>
    \/ \E w \in WWorkers : WUpsert(w) /\ UNCHANGED <<persVars, dbVars, clsVars, normVars, pollVars>>
    \/ \E w \in WWorkers : WMatch(w) /\ UNCHANGED <<persVars, dbVars, clsVars, normVars, pollVars>>
    \/ \E w \in WWorkers : WEmit(w) /\ UNCHANGED <<persVars, dbVars, clsVars, normVars, pollVars>>
    \/ \E w \in WWorkers : WAck(w) /\ UNCHANGED <<persVars, dbVars, clsVars, normVars, pollVars>>
    \/ \E w \in CWorkers : CRead(w) /\ UNCHANGED <<persVars, dbVars, watchVars, normVars, pollVars>>
    \/ \E w \in CWorkers : CClassifyFrom(w, PipelineResponses)
                           /\ UNCHANGED <<persVars, dbVars, watchVars, normVars, pollVars>>
    \/ \E w \in CWorkers : CPublish(w) /\ UNCHANGED <<persVars, dbVars, watchVars, normVars, pollVars>>
    \/ \E w \in CWorkers : CAck(w) /\ UNCHANGED <<persVars, dbVars, watchVars, normVars, pollVars>>

Next ==
    \/ \E u \in ReplayedUids :
          Replay(u) /\ UNCHANGED <<persVars, dbVars, clsVars, watchVars, normVars, pollVars>>
    \/ NextStages
    \/ NextPersister

Spec == Init /\ [][Next]_vars

\* ---- the classifier alone, its loop running for ever ----
\* while True: the worker keeps reading and handling as long as it lives; an
\* exception or a crash (CFault) may happen and never has to.
ClassifierProgress ==
    \E w \in CWorkers :
        /\ CRead(w) \/ CClassify(w) \/ CPublish(w) \/ CAck(w)
        /\ UNCHANGED <<persVars, dbVars, watchVars, normVars, pollVars>>

FairSpecClassifier == SpecClassifier /\ WF_vars(ClassifierProgress)

\* ---- the four stage workers with every collaborator healthy ----
\* raw_emails.v1 holds up to MaxEvents events of two mails: one with a body
\* of 60 characters, one with no text at all (its final_text is '') under a
\* subject of 45 characters.  No append, upsert or LLM call fails and no
\* worker dies; every worker loop runs for ever.
HealthyMessages ==
    {Message(1),
     [Message(2) EXCEPT !.subject = Str(2, 45), !.raw = [kind |-> "ok", text |-> EmptyStr]]}

HealthyVecIds == {<<m.subject.id, m.raw.text.id>> : m \in HealthyMessages}

HealthyRegistry ==
    {Prototype("w1", "Billing", 7, "q1", TRUE, [v \in HealthyVecIds |-> 3])}

HealthyResponses == {Json("Other", 150, "{vendor}")}

InitHealthy ==
    /\ BrokerInit(RAW, {RawEvent(m, 1) : m \in HealthyMessages})
    /\ PersInit /\ ClsInit /\ NormInit /\ PollInit
    /\ WatchInit
    /\ registry = HealthyRegistry
    /\ cacheOnly = FALSE
    /\ embCache = {}

NormalizerSteps(w) ==
    /\ NRead(w) \/ (NPublish(w) /\ nEmits' # nEmits) \/ NAck(w)
    /\ UNCHANGED <<persVars, dbVars, clsVars, watchVars, pollVars>>

WatcherSteps(w) ==
    /\ WRead(w) \/ WLookup(w) \/ WEmbed(w) \/ WUpsert(w) \/ WMatch(w) \/ WEmit(w) \/ WAck(w)
    /\ UNCHANGED <<persVars, dbVars, clsVars, normVars, pollVars>>

ClassifierSteps(w) ==
    /\ \/ CRead(w)
       \/ CClassifyFrom(w, HealthyResponses)
       \/ (CPublish(w) /\ cEmits' # cEmits)
       \/ CAck(w)
    /\ UNCHANGED <<persVars, dbVars, watchVars, normVars, pollVars>>

PersisterSteps(w) ==
    /\ \/ PRead(w)
       \/ (PSaveMessage(w) /\ pDbMsgId'[w] # 0)
       \/ (PSaveClassification(w) /\ pClsOk'[w])
       \/ PAck(w)
    /\ UNCHANGED <<clsVars, watchVars, normVars, pollVars>>

NextHealthy ==
    \/ \E w \in NWorkers : NormalizerSteps(w)
    \/ \E w \in WWorkers : WatcherSteps(w)
    \/ \E w \in CWorkers : ClassifierSteps(w)
    \/ \E w \in PWorkers : PersisterSteps(w)

FairSpecHealthy ==
    /\ InitHealthy /\ [][NextHealthy]_vars
    /\ \A w \in NWorkers : WF_vars(NormalizerSteps(w))
    /\ \A w \in WWorkers : WF_vars(WatcherSteps(w))
    /\ \A w \in CWorkers : WF_vars(ClassifierSteps(w))
    /\ \A w \in PWorkers : WF_vars(PersisterSteps(w))

----------------------------------------------------------------------------
\* Properties of the pipeline (Spec) and of redelivery (FairSpecClassifier).

\* C2 (as the specification states it): an entry that was delivered to a
\* worker of the consumer group and is left un-acknowledged with no worker
\* handling it (the worker crashed or its handler raised) is eventually
\* delivered again.
C2_UnackedIsRedelivered ==
    \A i \in 1..MaxEvents :
        (i \in pending[TOCLS] /\ \A w \in CWorkers : cCur[w] # i)
            ~> (i <= Len(stream[TOCLS]) /\ stream[TOCLS][i].delivered >= 2)

\* C3: however often the raw event of a mail is replayed, the messages table
\* never holds two rows for one idemp_key and holds exactly one from the
\* first committed message upsert for that key on; the classifications
\* table holds at most one row per message, and only for existing messages.
C3_OneRowPerIdempKey ==
    /\ \A m \in messages : Cardinality(RowsByKey(m.idemp_key)) = 1
    /\ \A h \in pLog :
         h.msgOk => Cardinality(RowsByKey(Fields(CLSD, h.idx).idemp_key)) = 1
    /\ \A m \in messages :
         Cardinality({c \in classifications : c.message_id = m.id}) <= 1
    /\ \A c \in classifications : \E m \in messages : m.id = c.message_id

\* two replays of one raw event, both persisted with both upserts
C3_Witness ==
    /\ \E g, h \in pLog :
         /\ g.idx # h.idx
         /\ g.msgOk /\ g.clsOk /\ h.msgOk /\ h.clsOk
         /\ Fields(CLSD, g.idx).idemp_key = Fields(CLSD, h.idx).idemp_key
    /\ Len(stream[RAW]) >= 2
    /\ Cardinality(messages) = 1
    /\ Cardinality(classifications) = 1

----------------------------------------------------------------------------
\* Properties of the persister (SpecPersister).

\* C1 (as the specification states it): an entry of emails.classified.v1 is
\* acknowledged only if the message upsert and the classification upsert of
\* its handler both succeeded; an entry whose upsert failed is never acked.
C1_AckOnlyAfterBothUpserts ==
    \A i \in 1..Len(stream[CLSD]) :
        stream[CLSD][i].acks > 0 =>
            \E h \in pLog : h.idx = i /\ h.msgOk /\ h.clsOk

----------------------------------------------------------------------------
\* Properties of the classifier (SpecClassifier).

\* the three conditions, read off the input event and the LLM's answer
C9Condition(f, resp) ==
    \/ f.filter_watcher_name # ""
    \/ resp.kind = "json" /\ resp.confidence >= 70
    \/ resp.kind = "json" /\ resp.extracted_data \notin {"{}", "notdict"}

\* C9 (as the specification states it): for every input the classifier
\* decides to publish a classified event if and only if the input carries a
\* watcher name, or the LLM confidence is >= 0.7, or extracted_data is
\* non-empty.
C9_PublishIffAnyCondition ==
    \A l \in cLog :
        l.publish <=> C9Condition(Fields(TOCLS, l.idx), l.resp)

\* C9 (amended): for an input whose text_content is non-empty the classifier
\* decides to publish if and only if one of the three conditions holds; an
\* input whose text_content is empty is never published; and an event is
\* appended to emails.classified.v1 only for an input it decided to publish.
C9_PublishIffAnyConditionGivenText ==
    /\ \A l \in cLog :
         LET f == Fields(TOCLS, l.idx)
         IN  IF f.text_content.len > 0
             THEN l.publish <=> C9Condition(f, l.resp)
             ELSE ~l.publish
    /\ \A e \in cEmits : \E l \in cLog : l.idx = e.idx /\ l.publish

\* an input with text and no watcher name published on confidence exactly
\* 0.7, next to an input with a watcher name and empty text that was dropped
C9_Witness ==
    /\ \E l \in cLog :
         /\ Fields(TOCLS, l.idx).text_content.len > 0
         /\ Fields(TOCLS, l.idx).filter_watcher_name = ""
         /\ l.resp = Json("", 70, "{}")
         /\ l.publish
         /\ \E e \in cEmits : e.idx = l.idx
         /\ stream[TOCLS][l.idx].acks = 1
    /\ \E l \in cLog :
         /\ Fields(TOCLS, l.idx).text_content.len = 0
         /\ Fields(TOCLS, l.idx).filter_watcher_name # ""
         /\ ~l.publish
         /\ stream[TOCLS][l.idx].acks = 1

\* C10 (as the specification states it): when the LLM call fails, answers
\* with an empty response or with malformed JSON, no event is appended to
\* emails.classified.v1 for that input.  (The other half of the sentence, the
\* acknowledgement of the input, is what the handler does on every path.)
C10_NoEventWhenLLMFails ==
    \A l \in cLog :
        l.resp.kind \in {"error", "empty", "malformed"} =>
            ~\E e \in cEmits : e.idx = l.idx

----------------------------------------------------------------------------
\* Properties of the semantic watcher (SpecWatcher).

\* C7: an event that reaches the decision step is routed if and only if
\* 1 - cosine_distance of the best row is >= that row's watcher_threshold
\* (equality routes); an event is appended to emails.to_classify.v1 only for
\* a routed input and carries the best row's watcher; a routed input that
\* has been acknowledged has its event on the stream.
C7_RouteIffSimilarityAtLeastThreshold ==
    /\ \A l \in wLog :
         l.decision \in {"routed", "below_threshold"} =>
            (l.decision = "routed"
                <=> Unit - l.best.cosine_distance >= l.best.watcher_threshold)
    /\ \A e \in wEmits :
         \E l \in wLog :
            /\ l.idx = e.idx
            /\ l.decision = "routed"
            /\ stream[TOCLS][e.out].ev.filter_watcher_id = l.best.watcher_id
            /\ stream[TOCLS][e.out].ev.idemp_key = Fields(NORM, l.idx).idemp_key
    /\ \A l \in wLog :
         l.decision = "routed" /\ stream[NORM][l.idx].acks > 0 =>
            \E e \in wEmits : e.idx = l.idx

\* one input routed on similarity equal to the threshold and emitted, another
\* dropped below its threshold with nothing emitted
C7_Witness ==
    /\ \E l \in wLog :
         /\ l.decision = "routed"
         /\ Unit - l.best.cosine_distance = l.best.watcher_threshold
         /\ \E e \in wEmits : e.idx = l.idx
    /\ \E l \in wLog :
         /\ l.decision = "below_threshold"
         /\ stream[NORM][l.idx].acks = 1
         /\ ~\E e \in wEmits : e.idx = l.idx

WDecisions ==
    {"missing_fields", "short_text", "cache_miss", "no_candidates", "below_threshold",
     "routed"}

\* C8: an input is never acknowledged twice; it is acknowledged only after
\* its handler took one of the six decisions; a handler that ran to its end
\* (no call raised) has acknowledged its input exactly once whatever the
\* decision; and a routed input is acknowledged only after its event was
\* appended.
C8_AckExactlyOnceOnExit ==
    /\ \A i \in 1..Len(stream[NORM]) :
         /\ stream[NORM][i].acks <= 1
         /\ stream[NORM][i].acks = 1 =>
               \E l \in wLog : l.idx = i /\ l.decision \in WDecisions
    /\ \A l \in wLog :
         ( /\ l.decision \in WDecisions
           /\ \A w \in WWorkers : wCur[w] # l.idx
           /\ ~\E x \in wLog : x.idx = l.idx /\ x.decision = "fault" )
         => stream[NORM][l.idx].acks = 1
    /\ \A l \in wLog :
         l.decision = "routed" /\ stream[NORM][l.idx].acks >= 1 =>
            \E e \in wEmits : e.idx = l.idx

\* a routed input and a dropped input, both handled to the end and acked once
C8_Witness ==
    /\ \A w \in WWorkers : wPc[w] = "read"
    /\ \E l \in wLog :
         /\ l.decision = "routed"
         /\ stream[NORM][l.idx].acks = 1
         /\ \E e \in wEmits : e.idx = l.idx
    /\ \E l \in wLog :
         /\ l.decision \in WDecisions \ {"routed"}
         /\ stream[NORM][l.idx].acks = 1

----------------------------------------------------------------------------
\* Properties of the poller (SpecPoller).

\* C4 (as the specification states it): neither the in-memory nor the
\* persisted last_scan_uid moves to or past the UID of an email of the batch
\* whose append to raw_emails.v1 failed.
C4_NoWatermarkPastFailedAppend ==
    [][\A u \in poLog.xaddFailed :
          /\ lastUid' >= u => lastUid >= u
          /\ scanRow'.uid >= u => scanRow.uid >= u]_vars

\* C5 (as the specification states it): the persisted last_scan_uid never
\* decreases.
C5_PersistedWatermarkNeverDecreases ==
    [][scanRow'.uid >= scanRow.uid]_vars

\* C6 (as the specification states it): once the initial scan is marked
\* completed, or the poller has switched to INCREMENTAL, every UID returned
\* by a SINCE search has been fetched in some batch.
C6_SwitchOnlyWhenWindowExhausted ==
    (scanRow.completed \/ (poPc # "down" /\ ~isInitialScan)) =>
        poLog.searched \subseteq poLog.fetched

----------------------------------------------------------------------------
\* Properties of the classified events (SpecClassifier).

\* C11 (as the specification states it): every event on
\* emails.classified.v1 has a non-empty class and a confidence within [0,1]
\* (0..100 hundredths).
C11_ClassifiedEventWellFormed ==
    \A e \in cEmits :
        /\ stream[CLSD][e.out].ev.class # ""
        /\ stream[CLSD][e.out].ev.confidence \in 0..100

\* C12 (as the specification states it): every classified event published
\* for an input that carries a watcher name has that watcher name as its
\* class, whatever class the LLM returned.
C12_ClassIsWatcherName ==
    \A e \in cEmits :
        LET f == Fields(TOCLS, e.idx)
        IN  f.filter_watcher_name # "" =>
                stream[CLSD][e.out].ev.class = f.filter_watcher_name

----------------------------------------------------------------------------
\* Properties of the stored rows (SpecPersister).

\* the committed upserts of one kind, as positions of pUpserts
UpsertsOf(kind) == {n \in 1..Len(pUpserts) : pUpserts[n].kind = kind}

\* C13: every classification row references an existing message row, and
\* every classification upsert that committed wrote under a message row whose
\* idemp_key is that of the classified event it was made from.
C13_ClassificationReferencesItsMessage ==
    /\ \A c \in classifications : \E m \in messages : m.id = c.message_id
    /\ \A c \in classifications :
         \E n \in UpsertsOf("classification") : pUpserts[n].id = c.message_id
    /\ \A n \in UpsertsOf("classification") :
         \E m \in messages :
            /\ m.id = pUpserts[n].id
            /\ m.idemp_key = Fields(CLSD, pUpserts[n].idx).idemp_key

\* classifications of two events with different idemp_keys, each under the
\* message row of its own key
C13_Witness ==
    \E n1, n2 \in UpsertsOf("classification") :
        /\ Fields(CLSD, pUpserts[n1].idx).idemp_key # Fields(CLSD, pUpserts[n2].idx).idemp_key
        /\ Cardinality(classifications) = 2
        /\ Cardinality(messages) = 2

\* the last committed message upsert for the idemp_key of upsert n
LastForKey(n) ==
    \A n2 \in UpsertsOf("message") :
        Fields(CLSD, pUpserts[n2].idx).idemp_key = Fields(CLSD, pUpserts[n].idx).idemp_key
            => n2 <= n

\* C14: all message upserts of one idemp_key return the same row id, and the
\* messages table holds a single row for that key whose subject, body_hash
\* and received_at are those of the event persisted last.
C14_LaterEventWins ==
    /\ \A n1, n2 \in UpsertsOf("message") :
         Fields(CLSD, pUpserts[n1].idx).idemp_key = Fields(CLSD, pUpserts[n2].idx).idemp_key
            => pUpserts[n1].id = pUpserts[n2].id
    /\ \A n \in UpsertsOf("message") :
         LastForKey(n) =>
            LET f == Fields(CLSD, pUpserts[n].idx)
            IN  /\ Cardinality(RowsByKey(f.idemp_key)) = 1
                /\ \A m \in RowsByKey(f.idemp_key) :
                     /\ m.id = pUpserts[n].id
                     /\ m.subject = f.subject
                     /\ m.body_hash = f.body_hash
                     /\ m.received_at = f.received_ts

\* two events of one idemp_key with different subjects, persisted one after
\* the other: the row carries the later subject
C14_Witness ==
    \E n1, n2 \in UpsertsOf("message") :
        LET f1 == Fields(CLSD, pUpserts[n1].idx)
            f2 == Fields(CLSD, pUpserts[n2].idx)
        IN  /\ n1 < n2
            /\ f1.idemp_key = f2.idemp_key
            /\ f1.subject # f2.subject
            /\ LastForKey(n2)
            /\ \E m \in messages : m.idemp_key = f2.idemp_key /\ m.subject = f2.subject

\* every committed upsert of `kind` under message id `id` was made from an
\* event with the fields f
OnlyFrom(kind, id, f) ==
    \A n \in UpsertsOf(kind) : pUpserts[n].id = id => Fields(CLSD, pUpserts[n].idx) = f

\* C15: when one classified event has been persisted once or several times
\* (and nothing else was persisted under its key), the messages table holds
\* for its idemp_key exactly the row that one persist writes, and the
\* classifications table holds for that message exactly the row that one
\* persist writes.
C15_PersistIsIdempotent ==
    /\ \A n \in UpsertsOf("message") :
         LET f == Fields(CLSD, pUpserts[n].idx)
             id == pUpserts[n].id
         IN  OnlyFrom("message", id, f) =>
                RowsByKey(f.idemp_key) =
                    {[id |-> id, idemp_key |-> f.idemp_key, mailbox_id |-> f.mailbox_id,
                      external_id |-> f.external_id, subject |-> f.subject,
                      body_hash |-> f.body_hash, received_at |-> f.received_ts]}
    /\ \A n \in UpsertsOf("classification") :
         LET f == Fields(CLSD, pUpserts[n].idx)
             id == pUpserts[n].id
         IN  OnlyFrom("classification", id, f) =>
                {c \in classifications : c.message_id = id} =
                    {[message_id |-> id, vendor |-> "", amount_cents |-> 0, currency |-> "",
                      class |-> f.class, confidence |-> f.confidence]}

\* the same event persisted twice, both upserts committed both times, with
\* one message row and one classification row in the store
C15_Witness ==
    \E n1, n2 \in UpsertsOf("classification") :
        /\ n1 < n2
        /\ pUpserts[n1].idx # pUpserts[n2].idx
        /\ Fields(CLSD, pUpserts[n1].idx) = Fields(CLSD, pUpserts[n2].idx)
        /\ Cardinality(messages) = 1
        /\ Cardinality(classifications) = 1

----------------------------------------------------------------------------
\* Properties of the persister's retries (FairSpecPersister).

\* C16 (as the specification states it): when the classification upsert of
\* an event failed after its message upsert committed, a classification row
\* for that message eventually exists.
C16_ClassificationFilledInOnRetry ==
    \A i \in 1..MaxEvents :
        (\E h \in pLog : h.idx = i /\ h.msgOk /\ ~h.clsOk)
            ~> (\E n \in UpsertsOf("message") :
                    /\ pUpserts[n].idx = i
                    /\ \E c \in classifications : c.message_id = pUpserts[n].id)

----------------------------------------------------------------------------
\* Properties of the classification row (SpecPersister).

\* C17 (as the specification states it): after a classified event was
\* persisted (and none later under the same message), the classification row
\* of its message holds the event's class, confidence, watcher_id and
\* extracted_data.
C17_ClassificationRowHoldsEvent ==
    \A n \in UpsertsOf("classification") :
        (\A n2 \in UpsertsOf("classification") : pUpserts[n2].id = pUpserts[n].id => n2 <= n)
        => LET f == Fields(CLSD, pUpserts[n].idx)
           IN  \E c \in classifications :
                  /\ c.message_id = pUpserts[n].id
                  /\ Get(c, "class", "NULL") = f.class
                  /\ Get(c, "confidence", "NULL") = f.confidence
                  /\ Get(c, "watcher_id", "NULL") = f.watcher_id
                  /\ Get(c, "extracted_data", "NULL") = f.extracted_data

----------------------------------------------------------------------------
\* Properties of the subject gate (SpecPoller).

\* C18 (as the specification states it): a publish_email call appends the
\* fetched email to raw_emails.v1 if and only if the subject gate passed, that
\* is, returned is_subscription = true with a confidence of at least 0.7; a
\* failed gate does not pass.
C18_AppendedIffGatePasses ==
    [][\A u \in pollDone' \ pollDone :
          (Len(stream'[RAW]) = Len(stream[RAW]) + 1) <=> (u \in poLog'.passed)]_vars

----------------------------------------------------------------------------
\* Properties of the normalizer (SpecNormalizer).

\* C19: every event appended to emails.normalized.v1 carries the idemp_key,
\* trace_id, mailbox_id, external_id and received_ts of the raw entry it was
\* produced from, and no raw entry produces more than one normalized event.
C19_NormalizedKeepsIdentity ==
    /\ \A e \in nEmits :
         LET n == stream[NORM][e.out].ev
             r == stream[RAW][e.idx].ev
         IN  /\ n.idemp_key = r.idemp_key
             /\ n.trace_id = r.trace_id
             /\ n.mailbox_id = r.mailbox_id
             /\ n.external_id = r.external_id
             /\ n.received_ts = r.received_ts
    /\ \A i \in 1..Len(stream[RAW]) : Cardinality({e \in nEmits : e.idx = i}) <= 1
    /\ Len(stream[NORM]) = Cardinality(nEmits)

\* two raw entries of different mails have been read, normalized and acked
C19_Witness ==
    /\ Len(stream[NORM]) = 2
    /\ \E e1, e2 \in nEmits :
         /\ stream[RAW][e1.idx].ev.idemp_key # stream[RAW][e2.idx].ev.idemp_key
         /\ stream[RAW][e1.idx].acks = 1
         /\ stream[RAW][e2.idx].acks = 1

\* C20 (as the specification states it): a raw entry whose raw_email_b64 is
\* empty or is not base64, or whose mail parse_email fails on, produces no
\* normalized event, and the normalizer goes straight to acknowledging it.
Unusable(raw) == raw.kind \in {"empty", "bad_padding", "bad_chars", "parse_error"}

C20_UnparsableIsDroppedAndAcked ==
    /\ \A e \in nEmits : ~Unusable(stream[RAW][e.idx].ev.raw_email_b64)
    /\ \A w \in NWorkers :
         (nCur[w] # 0 /\ Unusable(Fields(RAW, nCur[w]).raw_email_b64)) => nPc[w] = "ack"

\* C21: every event appended to emails.normalized.v1 has a text_content of at
\* most 1000 characters, the first 1000 of the cleaned text, and a body_hash
\* that is the hash of the whole cleaned text.
C21_TextTruncatedHashOverFullText ==
    \A e \in nEmits :
        LET n == stream[NORM][e.out].ev
            clean_text == stream[RAW][e.idx].ev.raw_email_b64.text
        IN  /\ n.text_content.len <= TEXT_CONTENT_LIMIT
            /\ n.text_content.id = clean_text.id
            /\ n.text_content.len = Min(clean_text.len, TEXT_CONTENT_LIMIT)
            /\ n.body_hash = Sha256(clean_text)

\* a mail of 1001 characters was published with 1000 of them, and one of
\* exactly 1000 characters whole
C21_Witness ==
    /\ \E e \in nEmits :
         /\ stream[RAW][e.idx].ev.raw_email_b64.text.len = TEXT_CONTENT_LIMIT + 1
         /\ stream[NORM][e.out].ev.text_content.len = TEXT_CONTENT_LIMIT
         /\ stream[NORM][e.out].ev.body_hash.of.len = TEXT_CONTENT_LIMIT + 1
    /\ \E e \in nEmits :
         /\ stream[RAW][e.idx].ev.raw_email_b64.text.len = TEXT_CONTENT_LIMIT
         /\ stream[NORM][e.out].ev.text_content.len = TEXT_CONTENT_LIMIT

----------------------------------------------------------------------------
\* Properties of the semantic watcher's early exits (SpecWatcher).

EmailTextOf(i) == BuildEmailText(stream[NORM][i].ev.subject, stream[NORM][i].ev.text_content)
HasKeyFields(i) == stream[NORM][i].ev.mailbox_id # "" /\ stream[NORM][i].ev.body_hash # NoHash
RanToItsEnd(i) ==
    /\ \A w \in WWorkers : wCur[w] # i
    /\ ~\E x \in wLog : x.idx = i /\ x.decision = "fault"

\* C22: an event whose assembled email text is shorter than 40 characters is
\* dropped as too short: nothing is emitted for it, no cache lookup, embedding,
\* cache write or vector search is made for it, and it is acknowledged; only
\* texts shorter than 40 characters are dropped by this rule.
C22_ShortTextDroppedWithoutCalls ==
    /\ \A i \in 1..Len(stream[NORM]) :
         (stream[NORM][i].delivered > 0 /\ HasKeyFields(i) /\ EmailTextOf(i).len < MIN_EMAIL_TEXT)
         => /\ \E l \in wLog : l.idx = i /\ l.decision = "short_text"
            /\ ~\E c \in wCalls : c.idx = i
            /\ ~\E e \in wEmits : e.idx = i
            /\ RanToItsEnd(i) => stream[NORM][i].acks = 1
    /\ \A l \in wLog :
         l.decision = "short_text" => EmailTextOf(l.idx).len < MIN_EMAIL_TEXT

\* a text of 39 characters was dropped and acked, and for a text of 40
\* characters the cache was looked up
C22_Witness ==
    /\ \E l \in wLog :
         /\ l.decision = "short_text"
         /\ EmailTextOf(l.idx).len = MIN_EMAIL_TEXT - 1
         /\ stream[NORM][l.idx].acks = 1
    /\ \E c \in wCalls :
         /\ EmailTextOf(c.idx).len = MIN_EMAIL_TEXT
         /\ c.call = "cache_lookup"

CachedVectors(i) ==
    {c.email_embedding : c \in CacheRows(stream[NORM][i].ev.mailbox_id, stream[NORM][i].ev.body_hash)}

\* C23: with WATCHER_CACHE_ONLY set the embedding service is never called and
\* the embedding cache is never written; an event that misses the cache is
\* dropped (nothing emitted, acknowledged), and an event that hits it goes on
\* to the vector search with the cached vector.
C23_CacheOnlyNeverEmbeds ==
    cacheOnly =>
        /\ embedCalls = 0
        /\ ~\E c \in wCalls : c.call \in {"embed", "cache_upsert"}
        /\ \A c \in wCalls :
             c.call = "cache_lookup" =>
                IF CachedVectors(c.idx) = {}
                THEN /\ \E l \in wLog : l.idx = c.idx /\ l.decision = "cache_miss"
                     /\ ~\E x \in wCalls : x.idx = c.idx /\ x.call = "vector_search"
                     /\ ~\E e \in wEmits : e.idx = c.idx
                     /\ RanToItsEnd(c.idx) => stream[NORM][c.idx].acks = 1
                ELSE /\ ~\E l \in wLog : l.idx = c.idx /\ l.decision = "cache_miss"
                     /\ \/ \E w \in WWorkers : wCur[w] = c.idx /\ wPc[w] = "match"
                        \/ \E x \in wCalls : x.idx = c.idx /\ x.call = "vector_search"
                        \/ \E l \in wLog : l.idx = c.idx /\ l.decision = "fault"
        /\ \A x \in wCalls : x.call = "vector_search" => x.emb \in CachedVectors(x.idx)

\* in cache-only mode one event missed the cache and was dropped and acked,
\* another hit it and was routed with the cached vector
C23_Witness ==
    /\ cacheOnly
    /\ \E l \in wLog :
         /\ l.decision = "cache_miss"
         /\ stream[NORM][l.idx].acks = 1
    /\ \E l \in wLog :
         /\ l.decision = "routed"
         /\ \E x \in wCalls : x.idx = l.idx /\ x.call = "vector_search"
                                 /\ x.emb \in CachedVectors(l.idx)
         /\ \E e \in wEmits : e.idx = l.idx

----------------------------------------------------------------------------
\* Properties of the embedding cache under two workers (SpecWatcherPair).

\* C24: email_embeddings never holds two rows for one (mailbox_id, body_hash)
\* pair, also when two workers miss the cache for the same pair and both
\* upsert.
C24_OneCacheRowPerPair ==
    \A c1, c2 \in embCache :
        (c1.mailbox_id = c2.mailbox_id /\ c1.body_hash = c2.body_hash) => c1 = c2

\* two handlers missed the cache for the same pair, embedded different email
\* texts and both upserted; the cache holds one row
C24_Witness ==
    /\ Cardinality(embCache) = 1
    /\ \E x, y \in wCalls :
         /\ x.idx # y.idx
         /\ x.call = "cache_upsert" /\ y.call = "cache_upsert"
         /\ x.emb # y.emb
         /\ stream[NORM][x.idx].ev.body_hash = stream[NORM][y.idx].ev.body_hash
         /\ stream[NORM][x.idx].ev.mailbox_id = stream[NORM][y.idx].ev.mailbox_id

----------------------------------------------------------------------------
\* Properties of acknowledging after a failed append (SpecNormalizer,
\* SpecClassifier).

\* the normalizer decides to emit for raw entry i: the field decodes and
\* parse_email returns a body_hash
NormalizerEmitsFor(i) ==
    LET raw == stream[RAW][i].ev.raw_email_b64
        decoded == B64Decode(raw)
    IN  /\ raw.kind # "empty"
        /\ ~decoded.raised
        /\ ParseEmail(decoded.bytes).body_hash # NoHash

\* C25 (as the specification states it): an input for which the stage decided
\* to emit is acknowledged only after its output event was appended, in the
\* normalizer and in the classifier.
C25_AckedOnlyAfterAppend ==
    /\ \A i \in 1..Len(stream[RAW]) :
         (stream[RAW][i].acks >= 1 /\ NormalizerEmitsFor(i)) => \E e \in nEmits : e.idx = i
    /\ \A l \in cLog :
         (l.publish /\ stream[TOCLS][l.idx].acks >= 1) => \E e \in cEmits : e.idx = l.idx

----------------------------------------------------------------------------
\* Properties of the worker loops' top-level except clause (SpecWorkers).

LeftUnacked(s, i) == stream'[s][i].acks = 0 /\ i \in pending'[s]

\* C26: in every stage an exception that reaches the top of the worker loop
\* does not end the loop, the worker is back at its read, and the entry that
\* was in hand is left un-acknowledged in the pending list.
C26_FaultKeepsLoopAndLeavesUnacked ==
    [][/\ \A w \in DOMAIN nPc : NFault(w) => (nPc'[w] = "read" /\ LeftUnacked(RAW, nCur[w]))
       /\ \A w \in DOMAIN wPc : WFault(w) => (wPc'[w] = "read" /\ LeftUnacked(NORM, wCur[w]))
       /\ \A w \in DOMAIN cPc : CFault(w) => (cPc'[w] = "read" /\ LeftUnacked(TOCLS, cCur[w]))
       /\ \A w \in DOMAIN pPc : PFault(w) => (pPc'[w] = "read" /\ LeftUnacked(CLSD, pCur[w]))]_vars

\* the single normalizer worker gave up its first entry without an ack (its
\* handler raised), the entry is still pending, and the worker went on to
\* handle and acknowledge the second entry
C26_Witness ==
    /\ Len(stream[RAW]) >= 2
    /\ stream[RAW][1].delivered = 1
    /\ stream[RAW][1].acks = 0
    /\ 1 \in pending[RAW]
    /\ \A w \in DOMAIN nPc : nCur[w] # 1
    /\ stream[RAW][2].acks = 1

----------------------------------------------------------------------------
\* Properties of the poller's scan state (SpecPoller).

\* C27 (as the specification states it): a poll that met an IMAP error ends
\* with the scan mode and last_scan_uid as they were, in memory and in the
\* scan-status row; in particular it does not mark the initial scan completed.
C27_ImapErrorLeavesScanState ==
    [][(poLog.imapFailed /\ poPc = "commit" /\ poPc' = "poll") =>
          /\ isInitialScan' = isInitialScan
          /\ lastUid' = lastUid
          /\ scanRow' = scanRow]_vars

\* C28 (as the specification states it): once the scan-status row has
\* initial_scan_completed = true no update resets it, and every get_scan_status
\* made afterwards (main() makes one at its start when it has a database
\* connection) reports it true, so that the poller starts in incremental mode.
C28_CompletedIsOneWay ==
    [][/\ scanRow.completed => scanRow'.completed
       /\ (scanRow.completed /\ poPc = "down" /\ poPc' = "poll" /\ pgConn') => ~isInitialScan']_vars

----------------------------------------------------------------------------
\* Properties of the idempotency key (SpecPoller, SpecKeys).

\* C29: raw events published for the same message of the mailbox carry the
\* same idemp_key, whatever the poll, the run of the poller or the trace_id;
\* the key is the one built from provider, mailbox_id and external_id alone.
C29_SameMessageSameKey ==
    /\ \A i, j \in 1..Len(stream[RAW]) :
         (/\ stream[RAW][i].ev.mailbox_id = stream[RAW][j].ev.mailbox_id
          /\ stream[RAW][i].ev.external_id = stream[RAW][j].ev.external_id)
         => stream[RAW][i].ev.idemp_key = stream[RAW][j].ev.idemp_key
    /\ \A i \in 1..Len(stream[RAW]) :
         LET ev == stream[RAW][i].ev
         IN  ev.idemp_key = BuildIdempotencyKey(Provider(ev.mailbox_id), ev.mailbox_id,
                                                ev.external_id)

\* the poller was restarted and published a message it had published before,
\* in a later poll and under another trace_id
C29_Witness ==
    /\ restarts = 1
    /\ \E i, j \in 1..Len(stream[RAW]) :
         /\ i # j
         /\ stream[RAW][i].ev.external_id = stream[RAW][j].ev.external_id
         /\ stream[RAW][i].ev.trace_id # stream[RAW][j].ev.trace_id
         /\ stream[RAW][i].ev.idemp_key = stream[RAW][j].ev.idemp_key

\* C30 (as the specification states it): two raw events that differ in
\* mailbox_id or in external_id never carry the same idemp_key (SHA-256 taken
\* as injective).
C30_KeyIdentifiesMessage ==
    \A i, j \in 1..Len(stream[RAW]) :
        (\/ stream[RAW][i].ev.mailbox_id # stream[RAW][j].ev.mailbox_id
         \/ stream[RAW][i].ev.external_id # stream[RAW][j].ev.external_id)
        => stream[RAW][i].ev.idemp_key # stream[RAW][j].ev.idemp_key

----------------------------------------------------------------------------
\* Properties of dead-lettering (FairSpecWatcher).

\* The streams the workers append to and read are the four of StreamNames; a
\* dead-letter stream of a stage would be a further stream of the broker,
\* holding the event together with a reason field.
DlqStreams == DOMAIN stream \ StreamNames

DeadLettered(s, i) ==
    \E d \in DlqStreams : \E n \in 1..Len(stream[d]) :
        /\ "reason" \in DOMAIN stream[d][n].ev
        /\ stream[d][n].ev.idemp_key = Fields(s, i).idemp_key

\* C31 (as the specification states it): a pending entry whose handling keeps
\* failing does not stay with the stage for ever: once its redeliveries have
\* failed N times (default 5) it is in the dead-letter stream of the stage,
\* with a reason field, and the stage retries it no more; so an entry whose
\* handling faulted eventually either leaves the pending list (a redelivery
\* succeeded and acknowledged it) or is dead-lettered.
C31_FailingEntryIsDeadLettered ==
    \A i \in 1..MaxEvents :
        (i \in pending[NORM] /\ \E h \in wLog : h.idx = i /\ h.decision = "fault")
            ~> (i \notin pending[NORM] \/ DeadLettered(NORM, i))

----------------------------------------------------------------------------
\* Relations of the routing decision (SpecWatcher).

\* C32: for the prototype and email of a routed decision (hence their fixed
\* similarity), the decision `sim >= threshold` also routes at every threshold
\* not above the watcher's.
C32_RoutesAtEveryLowerThreshold ==
    \A l \in wLog :
        l.decision = "routed" =>
            \A t \in 0..l.best.watcher_threshold :
                Routes(SimilarityFromCosineDistance(l.best.cosine_distance), t)

\* an email routed by a watcher whose threshold is the higher of the
\* registry's two, on a similarity above the lower one
C32_Witness ==
    \E l \in wLog :
        /\ l.decision = "routed"
        /\ \E q \in BillingPrototypes :
              /\ q.watcher_id = l.best.watcher_id
              /\ q.watcher_threshold < l.best.watcher_threshold
              /\ q.watcher_threshold < SimilarityFromCosineDistance(l.best.cosine_distance)
        /\ \E e \in wEmits : e.idx = l.idx

----------------------------------------------------------------------------
\* Re-routing (SpecWatcher): the input stream holds the same normalized
\* email twice and the registry does not change.

\* the decision by which the handler of entry i ended
DecisionsOf(i) == {l \in wLog : l.idx = i /\ l.decision \in WDecisions}

\* the vectors handed to match_watcher_queries while handling entry i
SearchedWith(i) == {c.emb : c \in {x \in wCalls : x.idx = i /\ x.call = "vector_search"}}

\* the second pass j of an email whose first pass i got as far as a routing
\* decision
Rerouted(i, j) ==
    /\ i < j
    /\ Fields(NORM, i) = Fields(NORM, j)
    /\ \E l \in DecisionsOf(i) : l.decision \in {"no_candidates", "below_threshold", "routed"}
    /\ DecisionsOf(j) # {}

SecondPassFromCache(i, j) ==
    /\ ~\E c \in wCalls : c.idx = j /\ c.call = "embed"
    /\ SearchedWith(j) # {}
    /\ SearchedWith(j) = SearchedWith(i)

\* the smallest distance to the email's vector is that of one row only
NoTieAtTop(i) ==
    \A emb \in SearchedWith(i) :
        \A c1, c2 \in MatchWatcherQueries(Fields(NORM, i).mailbox_id, emb, TOP_K) :
            c1 # <<>> => c1[1] = c2[1]

\* C33 (as the specification states it): the second pass of the same email
\* takes the decision of the first (the same watcher row, or the same drop),
\* searches with the vector of the first pass and makes no embedding call.
C33_RerouteSameDecision ==
    \A i, j \in 1..Len(stream[NORM]) :
        Rerouted(i, j) =>
            /\ DecisionsOf(j) = {[l EXCEPT !.idx = j] : l \in DecisionsOf(i)}
            /\ SecondPassFromCache(i, j)

\* C33 (amended): the same, for an email whose smallest distance is attained
\* by one prototype row only; when two rows tie at the top, the decision is
\* that of whichever row the search returns first.
C33_RerouteSameDecisionWithoutTie ==
    \A i, j \in 1..Len(stream[NORM]) :
        Rerouted(i, j) =>
            /\ NoTieAtTop(i) =>
                  DecisionsOf(j) = {[l EXCEPT !.idx = j] : l \in DecisionsOf(i)}
            /\ SecondPassFromCache(i, j)

\* the same email twice, the cache empty at first: the first pass embedded
\* and stored the vector, the second was routed to the same watcher without
\* an embedding call, and both events are on the output stream
C33_Witness ==
    /\ Len(stream[NORM]) = 2
    /\ Rerouted(1, 2)
    /\ NoTieAtTop(1)
    /\ \E c \in wCalls : c.idx = 1 /\ c.call = "cache_upsert"
    /\ \E l \in DecisionsOf(2) : l.decision = "routed"
    /\ \A i \in {1, 2} : \E e \in wEmits : e.idx = i
    /\ embedCalls = 1

----------------------------------------------------------------------------
\* Order of the persister's side effects (SpecPersister).

\* what a messages row and a classifications row hold of an event, row ids
\* and timestamps aside
MessageContent(f) ==
    [idemp_key |-> f.idemp_key, mailbox_id |-> f.mailbox_id, external_id |-> f.external_id,
     subject |-> f.subject, body_hash |-> f.body_hash]

ClassificationContent(f) ==
    [idemp_key |-> f.idemp_key, class |-> Get(f, "class", ""),
     confidence |-> Get(f, "confidence", 0)]

StoredMessages == {MessageContent(m) : m \in messages}

StoredClassifications ==
    {[idemp_key |-> m.idemp_key, class |-> c.class, confidence |-> c.confidence] :
        <<m, c>> \in {x \in messages \X classifications : x[2].message_id = x[1].id}}

\* the orders in which the entries of the input can be persisted
PersistOrders ==
    LET n == Len(stream[CLSD])
    IN  {o \in [1..n -> 1..n] : \A i \in 1..n : \E p \in 1..n : o[p] = i}

\* the event that an order persists last under the idemp_key of entry i
LastUnderKey(o, i) ==
    LET same == {p \in DOMAIN o :
                    Fields(CLSD, o[p]).idemp_key = Fields(CLSD, i).idemp_key}
    IN  Fields(CLSD, o[CHOOSE p \in same : \A q \in same : q <= p])

\* every entry of the input was persisted, both upserts committed
AllPersisted ==
    /\ \A w \in PWorkers : pPc[w] = "read"
    /\ \A i \in 1..Len(stream[CLSD]) : \E h \in pLog : h.idx = i /\ h.msgOk /\ h.clsOk

\* C34 (as the specification states it): once two classified events have
\* been persisted, the contents of messages and classifications (row ids and
\* timestamps aside) are those that persisting them in the one order yields
\* and also those that persisting them in the other order yields.
C34_PersistOrderIrrelevant ==
    (Len(stream[CLSD]) = 2 /\ AllPersisted) =>
        \A o \in PersistOrders :
            /\ StoredMessages =
                  {MessageContent(LastUnderKey(o, i)) : i \in 1..Len(stream[CLSD])}
            /\ StoredClassifications =
                  {ClassificationContent(LastUnderKey(o, i)) : i \in 1..Len(stream[CLSD])}

----------------------------------------------------------------------------
\* Properties of the incremental scan and of the watermark (SpecPoller).

\* the step of main() that polls, and the step that ends the loop body
IsPollStep == polls' = polls + 1
IsCommitStep == poPc = "commit" /\ poPc' = "poll"

\* C35: a poll in INCREMENTAL mode fetches only UIDs above last_scan_uid and
\* appends events of such UIDs only; when no UID is above it (the server then
\* answers UID last+1:* with the last existing UID), the poll appends nothing
\* and leaves last_uid and the scan-status row as they were.
C35_IncrementalFetchesOnlyNewer ==
    [][ /\ (IsPollStep /\ ~isInitialScan) =>
              /\ \A u \in Range(pollBatch') : u > lastUid
              /\ (\A u \in AllUids : u <= lastUid) => pollBatch' = <<>>
        /\ (poPc = "publish" /\ ~pollInitial /\ stream' # stream) =>
              \A u \in pollDone' \ pollDone : u > lastUid
        /\ (IsCommitStep /\ ~isInitialScan /\ pollBatch = <<>>) =>
              /\ lastUid' = lastUid
              /\ scanRow' = scanRow
              /\ stream' = stream
      ]_vars

\* an incremental poll found nothing above a watermark that is the last
\* existing UID, after an earlier poll had published
C35_Witness ==
    /\ poPc = "commit"
    /\ ~pollInitial /\ ~isInitialScan
    /\ ~poLog.imapFailed
    /\ lastUid > 0 /\ lastUid = Len(mailbox)
    /\ pollBatch = <<>>
    /\ poLog.published # {}

\* the largest UID of the batch in hand
BatchMax == CHOOSE u \in Range(pollBatch) : \A v \in Range(pollBatch) : v <= u

\* C36 (as the specification states it): the UID of the scan-status row
\* changes only at the end of the loop body, when the publish task of every
\* email of the batch has completed; whenever the row is written for a batch,
\* and whatever the order in which the tasks completed, the UID written
\* (which is the new last_uid) is the largest UID of the batch.
C36_WatermarkIsBatchMaxAfterAllTasks ==
    [][ /\ scanRow'.uid # scanRow.uid =>
              /\ IsCommitStep
              /\ pollDone = Range(pollBatch)
        /\ (IsCommitStep /\ pollBatch # <<>>) =>
              /\ pollDone = Range(pollBatch)
              /\ scanRow' # scanRow => (scanRow'.uid = BatchMax /\ lastUid' = BatchMax)
      ]_vars

\* C36 (amended): the same, the UID written being the larger of the largest
\* UID of the batch and the last_uid the poll started from; the two differ
\* only in an initial scan that started from a row with a UID.
C36_WatermarkIsMaxOfBatchAndLastUid ==
    [][ /\ scanRow'.uid # scanRow.uid =>
              /\ IsCommitStep
              /\ pollDone = Range(pollBatch)
        /\ (IsCommitStep /\ pollBatch # <<>>) =>
              /\ pollDone = Range(pollBatch)
              /\ lastUid' = IF BatchMax > lastUid THEN BatchMax ELSE lastUid
              /\ scanRow' # scanRow => scanRow'.uid = lastUid'
              /\ ~isInitialScan => lastUid' = BatchMax
      ]_vars

\* one poll fetched UIDs 1 and 2, the task of UID 2 completed (and appended)
\* before that of UID 1, and the row was written with UID 2
C36_Witness ==
    /\ poPc = "poll" /\ polls = 1
    /\ Len(stream[RAW]) = 2
    /\ stream[RAW][1].ev.subject = Message(2).subject
    /\ stream[RAW][2].ev.subject = Message(1).subject
    /\ scanRow.exists /\ scanRow.uid = 2
    /\ lastUid = 2

\* C39 (as the specification states it): when the end of the loop body moves
\* last_uid from u to v, every message of the mailbox with a UID in (u, v] is
\* in the batch of that poll, that is, was fetched and handed to
\* publish_email and its subject gate.
C39_WatermarkSkipsNoMessage ==
    [][ (IsCommitStep /\ lastUid' > lastUid) =>
            \A u \in AllUids : (lastUid < u /\ u <= lastUid') => u \in Range(pollBatch)
      ]_vars

\* the entries of raw_emails.v1 that carry the mail with UID u
AppendsOf(u) == {i \in 1..Len(stream[RAW]) : stream[RAW][i].ev.subject = mailbox[u].subject}

\* C40 (as the specification states it): within one run of the poller process
\* a mail is appended to raw_emails.v1 at most once, whether or not the
\* poller has a PostgreSQL connection.  (The claim's other half, that the
\* poller leaves INITIAL mode after its first non-empty batch, is what keeps
\* a later poll from fetching the same window again.)
C40_PublishedAtMostOncePerRun ==
    restarts = 0 => \A u \in 1..Len(mailbox) : Cardinality(AppendsOf(u)) <= 1

----------------------------------------------------------------------------
\* The single winner of the routing (SpecWatcher).

\* the distances of the active prototypes of entry i's mailbox to the
\* vector(s) searched with
DistancesFor(i) ==
    {q.dist[emb.vec] :
        q \in {x \in registry : x.mailbox_id = Fields(NORM, i).mailbox_id /\ x.is_active},
        emb \in SearchedWith(i)}

\* C37: at most one event is appended per input entry; the row a decision is
\* taken on is one of smallest distance; an appended event carries the
\* watcher id, name, query id and query text of that row; and an input whose
\* top row is below its threshold has no event, whatever the other rows.
C37_OnlyTopRowRoutes ==
    /\ \A i \in 1..Len(stream[NORM]) : Cardinality({e \in wEmits : e.idx = i}) <= 1
    /\ \A l \in wLog :
         l.decision \in {"routed", "below_threshold"} =>
            \A d \in DistancesFor(l.idx) : l.best.cosine_distance <= d
    /\ \A e \in wEmits :
         \E l \in wLog :
            /\ l.idx = e.idx /\ l.decision = "routed"
            /\ LET ev == stream[TOCLS][e.out].ev
               IN  /\ ev.filter_watcher_id = l.best.watcher_id
                   /\ ev.filter_watcher_name = l.best.watcher_name
                   /\ ev.filter_query_id = l.best.query_id
                   /\ ev.filter_query_text = l.best.query_text
    /\ \A l \in wLog :
         l.decision = "below_threshold" => ~\E e \in wEmits : e.idx = l.idx

\* an input dropped below the threshold of its top row and acknowledged,
\* while a lower-ranked row of another watcher clears that watcher's threshold
C37_Witness ==
    \E l \in wLog :
        /\ l.decision = "below_threshold"
        /\ stream[NORM][l.idx].acks = 1
        /\ ~\E e \in wEmits : e.idx = l.idx
        /\ \E q \in registry, emb \in SearchedWith(l.idx) :
              /\ q.is_active /\ q.watcher_id # l.best.watcher_id
              /\ q.dist[emb.vec] > l.best.cosine_distance
              /\ Routes(SimilarityFromCosineDistance(q.dist[emb.vec]), q.watcher_threshold)

----------------------------------------------------------------------------
\* Progress of the healthy pipeline (FairSpecHealthy).

\* entry i of raw_emails.v1 parses, its assembled email text has at least 40
\* characters, and the best prototype of its mailbox clears its threshold
Eligible(i) ==
    LET f == Fields(RAW, i)
        data == ParseEmail(B64Decode(f.raw_email_b64).bytes)
        text == BuildEmailText(f.subject, Truncate(data.text_content, TEXT_CONTENT_LIMIT))
    IN  /\ f.raw_email_b64.kind = "ok"
        /\ ~TooShort(text)
        /\ \E q \in registry :
              /\ q.mailbox_id = f.mailbox_id /\ q.is_active
              /\ Routes(SimilarityFromCosineDistance(q.dist[Embed(text).vec]),
                        q.watcher_threshold)

\* the store holds a message row and its classification row for entry i of
\* raw_emails.v1, and the entry was acknowledged at every stage it went
\* through
PersistedAndAcked(i) ==
    /\ i <= Len(stream[RAW])
    /\ \E m \in messages :
          /\ m.idemp_key = Fields(RAW, i).idemp_key
          /\ \E c \in classifications : c.message_id = m.id
    /\ stream[RAW][i].acks = 1
    /\ \E n \in nEmits : \E w \in wEmits : \E c \in cEmits :
          /\ n.idx = i /\ w.idx = n.out /\ c.idx = w.out
          /\ stream[NORM][n.out].acks = 1
          /\ stream[TOCLS][w.out].acks = 1
          /\ stream[CLSD][c.out].acks = 1

\* C38 (as the specification states it): with every worker loop scheduled
\* fairly and no collaborator failing, an event on raw_emails.v1 that parses,
\* has an email text of at least 40 characters and a best prototype that
\* clears its threshold eventually has its message row and classification
\* row, and its entry is acknowledged at every stage.
C38_EligibleEventIsPersisted ==
    \A i \in 1..MaxEvents :
        (i <= Len(stream[RAW]) /\ Eligible(i)) ~> PersistedAndAcked(i)

\* the text_content that the normalizer publishes for entry i is not empty
HasBodyText(i) ==
    NonEmpty(ParseEmail(B64Decode(Fields(RAW, i).raw_email_b64).bytes).text_content)

\* C38 (amended): the same for an event whose mail has body text; a mail
\* without any text is routed on its subject alone and then acknowledged by
\* the classifier without a classified event, so it never reaches the store.
C38_EligibleEventWithBodyIsPersisted ==
    \A i \in 1..MaxEvents :
        (i <= Len(stream[RAW]) /\ Eligible(i) /\ HasBodyText(i)) ~> PersistedAndAcked(i)

\* an eligible mail with body text has its two rows and its four
\* acknowledgements, while an eligible mail without body text was routed and
\* acknowledged by the classifier with nothing published
C38_Witness ==
    /\ Len(stream[RAW]) = 2
    /\ \E i, j \in 1..2 :
          /\ Eligible(i) /\ HasBodyText(i) /\ PersistedAndAcked(i)
          /\ Eligible(j) /\ ~HasBodyText(j)
          /\ \E n \in nEmits : \E w \in wEmits :
                /\ n.idx = j /\ w.idx = n.out
                /\ stream[TOCLS][w.out].acks = 1
                /\ ~\E c \in cEmits : c.idx = w.out

====
